----------------------- MODULE DocumentSession_proofs -----------------------
(***************************************************************************)
(* Units of work are serializable, and only another one's commit refuses   *)
(* one, for any documents, contents, queries, sessions and bounds.         *)
(***************************************************************************)
EXTENDS DocumentSession, TLAPS

-----------------------------------------------------------------------------
(* The inductive invariant.                                                *)

\* What a session shows is what it expects or what it wrote, and it has an
\* expectation of every document it shows.
Bookkept(s) ==
  /\ ops[s] = 0 => reads[s] = [k \in Key |-> Unread]
                    /\ answers[s] = [f \in Filter |-> Unread]
  /\ \A k \in Key :
       /\ overlay[s][k] = Unread <=> reads[s][k] = Unread
       /\ writes[s][k] = "none" => overlay[s][k] = reads[s][k]
       /\ writes[s][k] = "create" => reads[s][k] = Absent
       /\ writes[s][k] = "set" => overlay[s][k] # Absent
       /\ writes[s][k] # "none" => overlay[s][k] # Unread
       /\ \A f \in Filter : answers[s][f] # Unread /\ answers[s][f][k] # Absent
            => overlay[s][k] # Unread

\* Where nobody else wrote, what the session read is what is there.
Calm(s) == undisturbed[s] => ExpectationsHold(s, store)

\* The store a session would leave of another one.
Patched(s, S) ==
  [k \in Key |-> IF writes[s][k] = "none" THEN S[k] ELSE overlay[s][k]]

\* On every store that meets the session's expectations its operations would
\* have gone the same way and left what its writes make of that store.
Explained(s) ==
  \A S \in Store : ExpectationsHold(s, S) =>
    S \in DOMAIN serial[s] /\ serial[s][S] = Patched(s, S)

SessionInv ==
  /\ TypeOK
  /\ serial = [s \in Session |-> serial[s]]
  /\ \A s \in Session : Bookkept(s) /\ Calm(s) /\ Explained(s)

-----------------------------------------------------------------------------
(* Types.                                                                  *)

\* What a session shows of a document is a content.
LEMMA ShownTyped ==
  ASSUME TypeOK, NEW s \in Session, NEW k \in Key
  PROVE  /\ store[k] \in Content
         /\ Shown(s, k) \in Content
  BY UnreadAssumption DEF TypeOK, Shown, Store

\* The documents of a store that match are a store.
LEMMA MatchingTyped ==
  ASSUME NEW S \in Store, NEW f
  PROVE  Matching(S, f) \in Store
  BY DEF Store, Matching, Content

\* A look up keeps its part of the variables typed.
LEMMA LookUpTyped ==
  ASSUME TypeOK, NEW s \in Session, NEW k \in Key, LookUp(s, k)
  PROVE  /\ store' \in Store
         /\ reads' \in [Session -> [Key -> Content \cup {Unread}]]
         /\ answers' \in [Session -> [Filter -> Store \cup {Unread}]]
         /\ ops' \in [Session -> Nat]
         /\ undisturbed' \in [Session -> BOOLEAN]
  BY ShownTyped, MaxOpsAssumption DEF TypeOK, LookUp

\* The end of a session leaves a blank one.
LEMMA EndTyped ==
  ASSUME TypeOK, NEW s \in Session, End(s), store' \in Store
  PROVE  TypeOK'
  BY DEF TypeOK, End

\* Sessions start well typed.
LEMMA TypeInit == Init => TypeOK
  BY DEF Init, TypeOK, Store, Content

\* Every step keeps the variables typed.
LEMMA TypeStep == SessionInv /\ [Next]_vars => TypeOK'
  <1> SUFFICES ASSUME SessionInv, [Next]_vars PROVE TypeOK'
    OBVIOUS
  <1> TypeOK
    BY DEF SessionInv
  <1>1. CASE UNCHANGED vars
    BY <1>1 DEF TypeOK, vars
  <1>2. ASSUME NEW s \in Session, NEW k \in Key, Get(s, k) PROVE TypeOK'
    BY <1>2, LookUpTyped, ShownTyped DEF TypeOK, Get
  <1>3. ASSUME NEW s \in Session, NEW k \in Key, Delete(s, k) PROVE TypeOK'
    BY <1>3, LookUpTyped DEF TypeOK, Delete, DeletionOf, Content
  <1>4. ASSUME NEW s \in Session, NEW k \in Key, NEW d \in Data, Create(s, k, d)
        PROVE  TypeOK'
    BY <1>4, LookUpTyped DEF TypeOK, Create, CreationOf, Content
  <1>5. ASSUME NEW s \in Session, NEW k \in Key, NEW d \in Data, Set(s, k, d)
        PROVE  TypeOK'
    BY <1>5, LookUpTyped DEF TypeOK, Set, ReplacementOf, Content
  <1>6. ASSUME NEW s \in Session, NEW f \in Filter, Query(s, f) PROVE TypeOK'
    <2>1. Matching(store, f) \in Store
      BY MatchingTyped DEF TypeOK
    <2>2. \A k \in Key : store[k] \in Content
      BY DEF TypeOK, Store
    <2> QED
      BY <1>6, <2>1, <2>2, MaxOpsAssumption DEF TypeOK, Query
  <1>7. ASSUME NEW s \in Session, Commit(s) PROVE TypeOK'
    <2>1. ASSUME NEW k \in Key
          PROVE  /\ writes[s][k] # "none" => overlay[s][k] \in Content
                 /\ store[k] \in Content
      BY UnreadAssumption DEF TypeOK, SessionInv, Bookkept, Store
    <2>2. store' \in Store
      BY <1>7, <2>1 DEF Commit, Store
    <2> QED
      BY <1>7, <2>2, EndTyped DEF Commit
  <1>8. ASSUME NEW s \in Session, Refuse(s) \/ Rollback(s) PROVE TypeOK'
    BY <1>8, EndTyped DEF TypeOK, Refuse, Rollback
  <1> QED
    BY <1>1, <1>2, <1>3, <1>4, <1>5, <1>6, <1>7, <1>8 DEF Next

-----------------------------------------------------------------------------
(* Operations.                                                             *)

\* A session whose variables stay as they are, with the store, keeps its part
\* of the invariant.
LEMMA Undisturbed ==
  ASSUME SessionInv, NEW t \in Session, store' = store,
         ops'[t] = ops[t], reads'[t] = reads[t], answers'[t] = answers[t],
         overlay'[t] = overlay[t], writes'[t] = writes[t],
         undisturbed'[t] = undisturbed[t], serial'[t] = serial[t]
  PROVE  Bookkept(t)' /\ Calm(t)' /\ Explained(t)'
  <1>1. Bookkept(t)'
    BY DEF SessionInv, Bookkept
  <1>2. \A S : ExpectationsHold(t, S)' <=> ExpectationsHold(t, S)
    BY DEF ExpectationsHold
  <1>3. Calm(t)'
    <2>1. ExpectationsHold(t, store)' <=> ExpectationsHold(t, store)
      BY DEF ExpectationsHold
    <2> QED
      BY <2>1 DEF SessionInv, Calm
  <1>4. \A S : Patched(t, S)' = Patched(t, S)
    BY DEF Patched
  <1>5. Explained(t)'
    BY <1>2, <1>4 DEF SessionInv, Explained
  <1> QED
    BY <1>1, <1>3, <1>5

\* An operation on one document keeps the invariant, whatever it writes: it
\* goes through on a store as it did here if that store has the document the
\* session was shown.
LEMMA OperationKeeps ==
  ASSUME SessionInv, TypeOK', NEW s \in Session, NEW k \in Key, LookUp(s, k),
         NEW left \in Content, NEW write \in {"none", "create", "set", "delete"},
         overlay' = [overlay EXCEPT ![s][k] = left],
         writes' = [writes EXCEPT ![s][k] = write],
         RunsAlike(s, k, Shown(s, k), left),
         write = "none" => left = reads'[s][k],
         write = "create" => reads'[s][k] = Absent,
         write = "set" => left # Absent
  PROVE  SessionInv'
  <1> DEFINE seen == Shown(s, k)
  <1>1. TypeOK
    BY DEF SessionInv
  <1>2. serial' = [t \in Session |-> serial'[t]]
    BY DEF SessionInv, RunsAlike
  <1>3. ASSUME NEW t \in Session, t # s
        PROVE  Bookkept(t)' /\ Calm(t)' /\ Explained(t)'
    <2>1. /\ ops'[t] = ops[t] /\ reads'[t] = reads[t]
          /\ answers'[t] = answers[t] /\ overlay'[t] = overlay[t]
          /\ writes'[t] = writes[t] /\ undisturbed'[t] = undisturbed[t]
          /\ store' = store
      BY <1>1, <1>3 DEF TypeOK, LookUp
    <2>2. serial'[t] = serial[t]
      BY <1>3 DEF RunsAlike, SessionInv
    <2> QED
      BY <2>1, <2>2, Undisturbed
  \* What the session has after the step, document by document.
  <1>4. /\ reads'[s][k] = IF reads[s][k] = Unread THEN store[k] ELSE reads[s][k]
        /\ overlay'[s][k] = left
        /\ writes'[s][k] = write
        /\ \A j \in Key : j # k => /\ reads'[s][j] = reads[s][j]
                                   /\ overlay'[s][j] = overlay[s][j]
                                   /\ writes'[s][j] = writes[s][j]
        /\ answers'[s] = answers[s]
        /\ store' = store /\ undisturbed'[s] = undisturbed[s]
        /\ ops'[s] # 0
    BY <1>1, MaxOpsAssumption DEF TypeOK, LookUp
  <1>5. store[k] # Unread /\ left # Unread
    BY <1>1, UnreadAssumption, ShownTyped
  <1>6. Bookkept(s)'
    <2>1. ASSUME NEW j \in Key
          PROVE  /\ overlay'[s][j] = Unread <=> reads'[s][j] = Unread
                 /\ writes'[s][j] = "none" => overlay'[s][j] = reads'[s][j]
                 /\ writes'[s][j] = "create" => reads'[s][j] = Absent
                 /\ writes'[s][j] = "set" => overlay'[s][j] # Absent
                 /\ writes'[s][j] # "none" => overlay'[s][j] # Unread
                 /\ \A f \in Filter :
                      answers'[s][f] # Unread /\ answers'[s][f][j] # Absent
                        => overlay'[s][j] # Unread
      <3>1. CASE j = k
        BY <1>4, <1>5, <3>1
      <3>2. CASE j # k
        BY <1>4, <3>2 DEF SessionInv, Bookkept
      <3> QED
        BY <3>1, <3>2
    <2> QED
      BY <1>4, <2>1 DEF Bookkept
  <1>7. Calm(s)'
    <2> SUFFICES ASSUME undisturbed[s] PROVE ExpectationsHold(s, store)'
      BY <1>4 DEF Calm
    <2>1. ExpectationsHold(s, store)
      BY DEF SessionInv, Calm
    <2>2. ASSUME NEW j \in Key PROVE reads'[s][j] \in {Unread, store[j]}
      BY <1>4, <2>1 DEF ExpectationsHold
    <2> QED
      BY <1>4, <2>1, <2>2 DEF ExpectationsHold
  <1>8. Explained(s)'
    <2> SUFFICES ASSUME NEW S \in Store, ExpectationsHold(s, S)'
                 PROVE  S \in DOMAIN serial'[s] /\ serial'[s][S] = Patched(s, S)'
      BY DEF Explained
    <2>1. ExpectationsHold(s, S)
      <3>1. ASSUME NEW j \in Key PROVE reads[s][j] \in {Unread, S[j]}
        BY <1>4 DEF ExpectationsHold
      <3> QED
        BY <1>4, <3>1 DEF ExpectationsHold
    <2>2. S \in DOMAIN serial[s] /\ serial[s][S] = Patched(s, S)
      BY <2>1 DEF SessionInv, Explained
    \* The document the session was shown is the one it has on S by now.
    <2>3. serial[s][S][k] = seen
      <3>1. reads'[s][k] = S[k]
        BY <1>4, <1>5 DEF ExpectationsHold
      <3>2. /\ overlay[s][k] = Unread <=> reads[s][k] = Unread
            /\ writes[s][k] = "none" => overlay[s][k] = reads[s][k]
            /\ writes[s][k] # "none" => overlay[s][k] # Unread
        BY DEF SessionInv, Bookkept
      <3> QED
        BY <1>4, <2>2, <3>1, <3>2 DEF Patched, Shown
    <2>4. /\ S \in DOMAIN serial'[s]
          /\ serial'[s][S] = [serial[s][S] EXCEPT ![k] = left]
      BY <2>2, <2>3 DEF RunsAlike, SessionInv
    <2>5. [Patched(s, S) EXCEPT ![k] = left] = Patched(s, S)'
      <3>1. ASSUME NEW j \in Key
            PROVE  [Patched(s, S) EXCEPT ![k] = left][j]
                     = IF writes'[s][j] = "none" THEN S[j] ELSE overlay'[s][j]
        <4>1. CASE j = k
          <5>1. write = "none" => left = S[k]
            BY <1>4, <1>5 DEF ExpectationsHold
          <5> QED
            BY <1>4, <4>1, <5>1 DEF Patched
        <4>2. CASE j # k
          BY <1>4, <4>2 DEF Patched
        <4> QED
          BY <4>1, <4>2
      <3> QED
        BY <3>1 DEF Patched
    <2> QED
      BY <2>2, <2>4, <2>5
  <1> QED
    BY <1>2, <1>3, <1>6, <1>7, <1>8 DEF SessionInv

\* A query keeps the invariant.
LEMMA QueryKeeps ==
  ASSUME SessionInv, TypeOK', NEW s \in Session, NEW f \in Filter, Query(s, f)
  PROVE  SessionInv'
  <1> DEFINE first == answers[s][f] = Unread
             answer == IF first THEN Matching(store, f) ELSE answers[s][f]
             shown == [k \in Key |-> IF overlay'[s][k] = Unread THEN answer[k]
                                     ELSE overlay'[s][k]]
  <1>1. TypeOK
    BY DEF SessionInv
  <1>2. serial' = [t \in Session |-> serial'[t]]
    BY DEF SessionInv, Query
  <1>3. ASSUME NEW t \in Session, t # s
        PROVE  Bookkept(t)' /\ Calm(t)' /\ Explained(t)'
    <2>1. /\ ops'[t] = ops[t] /\ reads'[t] = reads[t]
          /\ answers'[t] = answers[t] /\ overlay'[t] = overlay[t]
          /\ writes'[t] = writes[t] /\ undisturbed'[t] = undisturbed[t]
          /\ store' = store
      BY <1>1, <1>3 DEF TypeOK, Query
    <2>2. serial'[t] = serial[t]
      BY <1>3 DEF Query, SessionInv
    <2> QED
      BY <2>1, <2>2, Undisturbed
  <1>4. /\ \A k \in Key :
             LET fills == first /\ store[k] \in f IN
             /\ reads'[s][k] = IF fills /\ reads[s][k] = Unread THEN store[k]
                               ELSE reads[s][k]
             /\ overlay'[s][k] = IF fills /\ overlay[s][k] = Unread THEN store[k]
                                 ELSE overlay[s][k]
             /\ writes'[s][k] = writes[s][k]
        /\ answers'[s][f] = answer
        /\ \A g \in Filter : g # f => answers'[s][g] = answers[s][g]
        /\ store' = store /\ undisturbed'[s] = undisturbed[s]
        /\ ops'[s] # 0
    BY <1>1, MaxOpsAssumption DEF TypeOK, Query
  <1>5. \A k \in Key : store[k] # Unread
    BY <1>1, UnreadAssumption, ShownTyped
  <1>6. Matching(store, f) # Unread
    BY <1>1, MatchingTyped, UnreadAssumption DEF TypeOK
  <1>7. Absent \notin f
    BY FilterAssumption, AbsentAssumption
  \* What the answer shows was filled in, now or when the query was sent.
  <1>8. \A k \in Key : answer[k] # Absent => overlay'[s][k] # Unread
    <2>1. CASE first
      BY <1>4, <1>5, <2>1 DEF Matching
    <2>2. CASE ~first
      BY <1>4, <2>2 DEF SessionInv, Bookkept
    <2> QED
      BY <2>1, <2>2
  <1>9. Bookkept(s)'
    <2>1. ASSUME NEW k \in Key
          PROVE  /\ overlay'[s][k] = Unread <=> reads'[s][k] = Unread
                 /\ writes'[s][k] = "none" => overlay'[s][k] = reads'[s][k]
                 /\ writes'[s][k] = "create" => reads'[s][k] = Absent
                 /\ writes'[s][k] = "set" => overlay'[s][k] # Absent
                 /\ writes'[s][k] # "none" => overlay'[s][k] # Unread
      <3>1. /\ overlay[s][k] = Unread <=> reads[s][k] = Unread
            /\ writes[s][k] = "none" => overlay[s][k] = reads[s][k]
            /\ writes[s][k] = "create" => reads[s][k] = Absent
            /\ writes[s][k] = "set" => overlay[s][k] # Absent
            /\ writes[s][k] # "none" => overlay[s][k] # Unread
        BY DEF SessionInv, Bookkept
      <3>2. Absent # Unread
        BY UnreadAssumption DEF Content
      <3> QED
        BY <1>4, <1>5, <3>1, <3>2
    <2>2. ASSUME NEW k \in Key, NEW g \in Filter,
                 answers'[s][g] # Unread, answers'[s][g][k] # Absent
          PROVE  overlay'[s][k] # Unread
      <3>1. CASE g = f
        BY <1>4, <1>8, <2>2, <3>1
      <3>2. CASE g # f
        <4>1. overlay[s][k] # Unread
          BY <1>4, <2>2, <3>2 DEF SessionInv, Bookkept
        <4> QED
          BY <1>4, <4>1
      <3> QED
        BY <3>1, <3>2
    <2> QED
      BY <1>4, <2>1, <2>2 DEF Bookkept
  <1>10. Calm(s)'
    <2> SUFFICES ASSUME undisturbed[s] PROVE ExpectationsHold(s, store)'
      BY <1>4 DEF Calm
    <2>1. ExpectationsHold(s, store)
      BY DEF SessionInv, Calm
    <2>2. ASSUME NEW k \in Key PROVE reads'[s][k] \in {Unread, store[k]}
      BY <1>4, <2>1 DEF ExpectationsHold
    <2>3. ASSUME NEW g \in Filter
          PROVE  answers'[s][g] \in {Unread, Matching(store, g)}
      BY <1>4, <2>1 DEF ExpectationsHold
    <2> QED
      BY <1>4, <2>2, <2>3 DEF ExpectationsHold
  <1>11. Explained(s)'
    <2> SUFFICES ASSUME NEW S \in Store, ExpectationsHold(s, S)'
                 PROVE  S \in DOMAIN serial'[s] /\ serial'[s][S] = Patched(s, S)'
      BY DEF Explained
    <2>1. ExpectationsHold(s, S)
      <3>1. ASSUME NEW k \in Key PROVE reads[s][k] \in {Unread, S[k]}
        BY <1>4 DEF ExpectationsHold
      <3>2. ASSUME NEW g \in Filter
            PROVE  answers[s][g] \in {Unread, Matching(S, g)}
        BY <1>4 DEF ExpectationsHold
      <3> QED
        BY <3>1, <3>2 DEF ExpectationsHold
    <2>2. S \in DOMAIN serial[s] /\ serial[s][S] = Patched(s, S)
      BY <2>1 DEF SessionInv, Explained
    <2>3. Patched(s, S)' = Patched(s, S)
      BY <1>4 DEF Patched, SessionInv, Bookkept
    \* The answer is what S gives to this query.
    <2>4. answer = Matching(S, f)
      <3>1. answer # Unread
        BY <1>6
      <3> QED
        BY <1>4, <3>1 DEF ExpectationsHold
    <2>5. ASSUME NEW k \in Key
          PROVE  (IF Patched(s, S)[k] \in f THEN Patched(s, S)[k] ELSE Absent)
                   = IF shown[k] \in f THEN shown[k] ELSE Absent
      <3>1. CASE overlay'[s][k] = Unread
        <4>1. writes[s][k] = "none"
          BY <1>4, <1>9, <3>1 DEF Bookkept
        <4>2. answer[k] = Absent /\ S[k] \notin f
          <5>1. answer[k] = Absent
            BY <1>8, <3>1
          <5>2. answer[k] = IF S[k] \in f THEN S[k] ELSE Absent
            BY <2>4 DEF Matching
          <5> QED
            BY <1>7, <5>1, <5>2
        <4> QED
          BY <1>7, <3>1, <4>1, <4>2 DEF Patched
      <3>2. CASE overlay'[s][k] # Unread
        <4>1. Patched(s, S)'[k] = overlay'[s][k]
          <5>1. /\ writes'[s][k] = "none" => overlay'[s][k] = reads'[s][k]
                /\ reads'[s][k] \in {Unread, S[k]}
            BY <1>9 DEF Bookkept, ExpectationsHold
          <5> QED
            BY <3>2, <5>1 DEF Patched
        <4> QED
          BY <2>3, <3>2, <4>1
      <3> QED
        BY <3>1, <3>2
    <2>6. Matching(serial[s][S], f) = Matching(shown, f)
      BY <2>2, <2>5 DEF Matching
    <2>7. S \in DOMAIN serial'[s] /\ serial'[s][S] = serial[s][S]
      BY <2>2, <2>6 DEF Query, SessionInv
    <2> QED
      BY <2>2, <2>3, <2>7
  <1> QED
    BY <1>2, <1>3, <1>9, <1>10, <1>11 DEF SessionInv

\* The end of a session, whatever it left in the store, keeps the invariant.
LEMMA EndKeeps ==
  ASSUME SessionInv, TypeOK', NEW s \in Session, End(s)
  PROVE  SessionInv'
  <1>1. TypeOK
    BY DEF SessionInv
  <1>2. serial' = [t \in Session |-> serial'[t]]
    BY DEF SessionInv, End
  <1>3. ASSUME NEW t \in Session, t # s
        PROVE  Bookkept(t)' /\ Calm(t)' /\ Explained(t)'
    <2>1. /\ ops'[t] = ops[t] /\ reads'[t] = reads[t]
          /\ answers'[t] = answers[t] /\ overlay'[t] = overlay[t]
          /\ writes'[t] = writes[t]
          /\ undisturbed'[t] => \/ ops[t] = 0
                                \/ undisturbed[t] /\ store' = store
      BY <1>1, <1>3 DEF TypeOK, End
    <2>2. serial'[t] = serial[t]
      BY <1>3 DEF End, SessionInv
    <2>3. Bookkept(t)'
      BY <2>1 DEF SessionInv, Bookkept
    <2>4. Calm(t)'
      <3>1. CASE ops[t] = 0
        <4>1. /\ \A k \in Key : reads'[t][k] = Unread
              /\ \A f \in Filter : answers'[t][f] = Unread
          BY <2>1, <3>1 DEF SessionInv, Bookkept
        <4> QED
          BY <4>1 DEF Calm, ExpectationsHold
      <3>2. CASE undisturbed[t] /\ store' = store
        BY <2>1, <3>2 DEF SessionInv, Calm, ExpectationsHold
      <3>3. CASE ~undisturbed'[t]
        BY <3>3 DEF Calm
      <3> QED
        BY <2>1, <3>1, <3>2, <3>3
    <2>5. \A S : ExpectationsHold(t, S)' <=> ExpectationsHold(t, S)
      BY <2>1 DEF ExpectationsHold
    <2>6. \A S : Patched(t, S)' = Patched(t, S)
      BY <2>1 DEF Patched
    <2>7. Explained(t)'
      BY <2>2, <2>5, <2>6 DEF SessionInv, Explained
    <2> QED
      BY <2>3, <2>4, <2>7
  <1>4. /\ reads'[s] = [k \in Key |-> Unread]
        /\ answers'[s] = [f \in Filter |-> Unread]
        /\ overlay'[s] = [k \in Key |-> Unread]
        /\ writes'[s] = [k \in Key |-> "none"]
    BY <1>1 DEF TypeOK, End
  <1>5. serial'[s] = Untouched
    BY DEF End, SessionInv
  <1>6. Bookkept(s)' /\ Calm(s)'
    BY <1>4 DEF Bookkept, Calm, ExpectationsHold
  <1>7. Explained(s)'
    <2>1. ASSUME NEW S \in Store PROVE Patched(s, S)' = S
      BY <1>4 DEF Patched, Store
    <2> QED
      BY <1>5, <2>1 DEF Explained, Untouched
  <1> QED
    BY <1>2, <1>3, <1>6, <1>7 DEF SessionInv

-----------------------------------------------------------------------------
(* Theorems.                                                               *)

\* Sessions start with the invariant.
LEMMA SessionInit == Init => SessionInv
  <1> SUFFICES ASSUME Init PROVE SessionInv
    OBVIOUS
  <1>1. \A s \in Session : Bookkept(s) /\ Calm(s)
    BY DEF Init, Bookkept, Calm, ExpectationsHold
  <1>2. \A s \in Session : Explained(s)
    <2>1. ASSUME NEW s \in Session, NEW S \in Store PROVE Patched(s, S) = S
      BY DEF Init, Patched, Store
    <2> QED
      BY <2>1 DEF Init, Explained, Untouched
  <1> QED
    BY <1>1, <1>2, TypeInit DEF SessionInv, Init

\* Every step keeps the invariant.
LEMMA SessionStep == SessionInv /\ [Next]_vars => SessionInv'
  <1> SUFFICES ASSUME SessionInv, [Next]_vars PROVE SessionInv'
    OBVIOUS
  <1>1. TypeOK /\ TypeOK'
    BY TypeStep DEF SessionInv
  <1> USE <1>1
  <1>2. CASE UNCHANGED vars
    BY <1>2, Undisturbed DEF SessionInv, vars
  <1>3. ASSUME NEW s \in Session, NEW k \in Key, Get(s, k) PROVE SessionInv'
    <2>1. writes' = [writes EXCEPT ![s][k] = writes[s][k]]
      BY <1>3 DEF Get, TypeOK
    <2>2. /\ writes[s][k] = "none" => Shown(s, k) = reads'[s][k]
          /\ writes[s][k] = "create" => reads'[s][k] = Absent
      <3>1. reads'[s][k] = IF reads[s][k] = Unread THEN store[k] ELSE reads[s][k]
        BY <1>3 DEF Get, LookUp, TypeOK
      <3>2. Absent # Unread
        BY UnreadAssumption DEF Content
      <3> QED
        BY <3>1, <3>2 DEF Shown, SessionInv, Bookkept
    <2>3. /\ writes[s][k] \in {"none", "create", "set", "delete"}
          /\ writes[s][k] = "set" => Shown(s, k) # Absent
      BY DEF TypeOK, Shown, SessionInv, Bookkept
    <2> QED
      BY <1>3, <2>1, <2>2, <2>3, ShownTyped, OperationKeeps DEF Get
  \* How the document stood, and what the look up makes its expectation.
  <1>4. ASSUME NEW s \in Session, NEW k \in Key, LookUp(s, k)
        PROVE  /\ reads'[s][k] = IF reads[s][k] = Unread THEN store[k]
                                 ELSE reads[s][k]
               /\ overlay[s][k] = Unread <=> reads[s][k] = Unread
               /\ writes[s][k] = "none" => overlay[s][k] = reads[s][k]
               /\ writes[s][k] = "create" => reads[s][k] = Absent
               /\ writes[s][k] = "set" => overlay[s][k] # Absent
               /\ writes[s][k] # "none" => overlay[s][k] # Unread
               /\ writes[s][k] \in {"none", "create", "set", "delete"}
               /\ Absent # Unread
    BY <1>4, UnreadAssumption DEF LookUp, TypeOK, SessionInv, Bookkept, Content
  <1>5. ASSUME NEW s \in Session, NEW k \in Key, NEW d \in Data, Create(s, k, d)
        PROVE  SessionInv'
    <2> DEFINE write == CreationOf(writes[s][k])
    <2>1. LookUp(s, k) /\ Shown(s, k) = Absent
      BY <1>5 DEF Create
    <2>2. /\ write \in {"none", "create", "set", "delete"} /\ write # "none"
          /\ write = "create" => reads'[s][k] = Absent
      BY <1>4, <2>1 DEF Shown, CreationOf
    <2>3. writes' = [writes EXCEPT ![s][k] = write]
      BY <1>5 DEF Create, TypeOK
    <2>4. d \in Content /\ d # Absent
      BY AbsentAssumption DEF Content
    <2>5. RunsAlike(s, k, Shown(s, k), d)
      BY <1>5, <2>1 DEF Create
    <2> HIDE DEF write
    <2> QED
      BY <1>5, <2>1, <2>2, <2>3, <2>4, <2>5, OperationKeeps DEF Create
  <1>6. ASSUME NEW s \in Session, NEW k \in Key, NEW d \in Data, Set(s, k, d)
        PROVE  SessionInv'
    <2> DEFINE write == ReplacementOf(writes[s][k])
    <2>1. LookUp(s, k)
      BY <1>6 DEF Set
    <2>2. /\ write \in {"none", "create", "set", "delete"} /\ write # "none"
          /\ write = "create" => reads'[s][k] = Absent
      BY <1>4, <2>1 DEF ReplacementOf
    <2>3. writes' = [writes EXCEPT ![s][k] = write]
      BY <1>6 DEF Set, TypeOK
    <2>4. d \in Content /\ d # Absent
      BY AbsentAssumption DEF Content
    <2> HIDE DEF write
    <2> QED
      BY <1>6, <2>1, <2>2, <2>3, <2>4, OperationKeeps DEF Set
  <1>7. ASSUME NEW s \in Session, NEW k \in Key, Delete(s, k) PROVE SessionInv'
    <2> DEFINE write == DeletionOf(writes[s][k])
    <2>1. LookUp(s, k)
      BY <1>7 DEF Delete
    <2>2. /\ write \in {"none", "create", "set", "delete"}
          /\ write # "create" /\ write # "set"
          /\ write = "none" => reads'[s][k] = Absent
      BY <1>4, <2>1 DEF DeletionOf
    <2>3. writes' = [writes EXCEPT ![s][k] = write]
      BY <1>7 DEF Delete, TypeOK
    <2>4. Absent \in Content
      BY DEF Content
    <2> HIDE DEF write
    <2> QED
      BY <1>7, <2>1, <2>2, <2>3, <2>4, OperationKeeps DEF Delete
  <1>8. ASSUME NEW s \in Session, NEW f \in Filter, Query(s, f) PROVE SessionInv'
    BY <1>8, QueryKeeps
  <1>9. ASSUME NEW s \in Session, Commit(s) \/ Refuse(s) \/ Rollback(s)
        PROVE  SessionInv'
    BY <1>9, EndKeeps DEF Commit, Refuse, Rollback
  <1> QED
    BY <1>2, <1>3, <1>5, <1>6, <1>7, <1>8, <1>9 DEF Next

\* The documents, queries and writes of every session keep their types.
THEOREM TypeCorrect == Spec => []TypeOK
  <1>1. SessionInv => TypeOK
    BY DEF SessionInv
  <1> QED
    BY <1>1, SessionInit, SessionStep, PTL DEF Spec

\* Committed units of work are serializable.
THEOREM SerializableCorrect == Spec => Serializable
  <1>1. SessionInv /\ [Next]_vars
          => [\A s \in Session :
                Commit(s) => store \in DOMAIN serial[s]
                             /\ store' = serial[s][store]]_vars
    <2> SUFFICES ASSUME SessionInv, NEW s \in Session, Commit(s)
                 PROVE  store \in DOMAIN serial[s] /\ store' = serial[s][store]
      OBVIOUS
    <2>1. store \in Store /\ ExpectationsHold(s, store)
      BY DEF SessionInv, TypeOK, Commit
    <2>2. store \in DOMAIN serial[s] /\ serial[s][store] = Patched(s, store)
      BY <2>1 DEF SessionInv, Explained
    <2> QED
      BY <2>2 DEF Commit, Patched
  <1> QED
    BY <1>1, SessionInit, SessionStep, PTL DEF Spec, Serializable

\* Only a change made by another session refuses one.
THEOREM RefusedOnlyIfDisturbedCorrect == Spec => RefusedOnlyIfDisturbed
  <1>1. SessionInv /\ [Next]_vars
          => [\A s \in Session : Refuse(s) => ~undisturbed[s]]_vars
    <2> SUFFICES ASSUME SessionInv, NEW s \in Session, Refuse(s), undisturbed[s]
                 PROVE  FALSE
      OBVIOUS
    <2>1. ExpectationsHold(s, store)
      BY DEF SessionInv, Calm
    <2>2. ASSUME NEW k \in Key, writes[s][k] = "create" PROVE store[k] = Absent
      <3>1. reads[s][k] = Absent /\ Absent # Unread
        BY <2>2, UnreadAssumption DEF SessionInv, Bookkept, Content
      <3> QED
        BY <2>1, <3>1 DEF ExpectationsHold
    <2> QED
      BY <2>1, <2>2 DEF Refuse, CreationsFit
  <1> QED
    BY <1>1, SessionInit, SessionStep, PTL DEF Spec, RefusedOnlyIfDisturbed
=============================================================================
