CONSTANTS
  k1 = k1
  k2 = k2
  s1 = s1
  s2 = s2
  Key = {k1, k2}
  Data = {"a", "b"}
  Filter <- MCFilter
  Session = {s1, s2}
  Absent = Absent
  Unread = Unread
  MaxOps <- MCMaxOps
SPECIFICATION Spec
SYMMETRY Keys
INVARIANTS
  TypeOK
PROPERTIES
  Serializable
  RefusedOnlyIfDisturbed
