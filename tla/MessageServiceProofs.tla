------------------------- MODULE MessageServiceProofs -------------------------
(***************************************************************************)
(* Theorems about MessageService, for any chats, messages, edits and pages. *)
(***************************************************************************)
EXTENDS MessageService, FiniteSetTheorems, TLAPS

LEMMA EditTyped ==
    ASSUME NEW e \in Edits
    PROVE  e.kind \in {"read", "delete"} /\ e.of \in Messages
BY MessageAssumption

LEMMA StampTyped ==
    ASSUME TypeOK, NEW m \in Messages, NEW t \in 0..MaxStamp, stamp' = [stamp EXCEPT ![m] = t]
    PROVE  stamp' \in [Messages -> 0..MaxStamp]
BY DEF TypeOK

\* What a Save of an edit writes: a row with the edit's flag set and no flag
\* reset.
LEMMA EditedTyped ==
    ASSUME IInv, NEW e \in Edits, editPc[e] = "loaded"
    PROVE  /\ Edited(e) \in Row
           /\ e.kind = "read" => Edited(e).read
           /\ e.kind = "delete" => Edited(e).deleted
           /\ editCopy[e].read => Edited(e).read
           /\ editCopy[e].deleted => Edited(e).deleted
<1>1. editCopy[e] \in Row
  BY DEF IInv, CallsTracked
<1> QED
  BY <1>1, EditTyped DEF Edited, Row

LEMMA IInvInit == Init => IInv
<1> SUFFICES ASSUME Init PROVE IInv
  OBVIOUS
<1>1. TypeOK
  BY MessageAssumption DEF Init, TypeOK
<1>2. CallsTracked
  BY EditTyped DEF Init, CallsTracked
<1>3. EditsLast /\ EditedOnce
  BY DEF Init, EditsLast, EditedOnce, Succeeded
<1> QED
  BY <1>1, <1>2, <1>3 DEF IInv

\* A step that leaves the table and the edits alone keeps what is said of
\* edits.
LEMMA EditsUntouched ==
    ASSUME IInv, UNCHANGED <<rows, overlapped, editVars>>
    PROVE  EditsLast' /\ EditedOnce'
BY DEF IInv, EditsLast, EditedOnce, Succeeded, Shows, editVars

LEMMA SendStep ==
    ASSUME IInv, NEW m \in Messages,
           CheckMember(m) \/ Insert(m) \/ FailSend(m) \/ PublishSent(m)
    PROVE  IInv'
<1>t. TypeOK /\ CallsTracked
  BY DEF IInv
<1>p. pageVars' = pageVars /\ editVars' = editVars /\ overlapped' = overlapped
  BY DEF CheckMember, Insert, FailSend, PublishSent, tableVars
<1>1. CASE CheckMember(m)
  <2>1. SenderOf[m] \in Members[ChatOf[m]]
    BY <1>1 DEF CheckMember, GetChat
  <2>2. clock' \in 0..MaxStamp
    BY <1>1, <1>t, MessageAssumption DEF CheckMember, TypeOK
  <2>3. stamp' \in [Messages -> 0..MaxStamp]
    BY <1>1, <1>t, <2>2, StampTyped DEF CheckMember
  <2>4. rows' = rows /\ sendPc' = [sendPc EXCEPT ![m] = "made"] /\ sendPc[m] = "idle"
    BY <1>1 DEF CheckMember, tableVars
  <2>5. TypeOK'
    BY <1>1, <1>t, <1>p, <2>2, <2>3, <2>4 DEF CheckMember, TypeOK, pageVars, editVars
  <2>6. CallsTracked'
    BY <1>t, <1>p, <2>1, <2>4 DEF CallsTracked, TypeOK, editVars, Allowed
  <2> QED
    BY <1>p, <2>4, <2>5, <2>6, EditsUntouched DEF IInv
<1>2. CASE Insert(m)
  <2> DEFINE new == [read |-> FALSE, deleted |-> FALSE]
  <2>1. new \in Row
    BY DEF Row
  <2>2. rows' = [rows EXCEPT ![m] = new] /\ rows[m] = None /\ new # None
    BY <1>2, <1>t, <2>1, MessageAssumption DEF Insert, CallsTracked
  <2>3. PICK p \in {"saved", "failed"} : sendPc' = [sendPc EXCEPT ![m] = p]
    BY <1>2 DEF Insert
  <2>4. TypeOK'
    BY <1>2, <1>t, <1>p, <2>1, <2>2, <2>3 DEF Insert, TypeOK, pageVars, editVars
  <2>5. \A n \in Messages : rows'[n] = IF n = m THEN new ELSE rows[n]
    BY <1>t, <2>2 DEF TypeOK
  <2>6. \A e \in Edits : editPc[e] # "idle" => e.of # m
    BY <1>t, <2>2 DEF CallsTracked
  <2>7. CallsTracked'
    <3>1. \A n \in Messages :
             /\ rows'[n] # None <=> sendPc'[n] \in {"saved", "done", "failed"}
             /\ sendPc'[n] # "idle" => SenderOf[n] \in Members[ChatOf[n]]
      BY <1>2, <1>t, <2>2, <2>3, <2>5 DEF Insert, CallsTracked, TypeOK
    <3>2. \A e \in Edits :
             /\ editPc'[e] # "idle" => rows'[e.of] # None
             /\ editPc'[e] = "loaded" => editCopy'[e] \in Row /\ Allowed(e, editCopy'[e])
      BY <1>t, <1>p, <2>2, <2>5, EditTyped DEF CallsTracked, editVars
    <3> QED
      BY <3>1, <3>2 DEF CallsTracked, Allowed
  <2>8. EditsLast'
    BY <1>p, <2>5, <2>6, EditTyped DEF IInv, EditsLast, Succeeded, Shows, editVars
  <2>9. EditedOnce'
    BY <1>p DEF IInv, EditedOnce, Succeeded, editVars
  <2> QED
    BY <2>4, <2>7, <2>8, <2>9 DEF IInv
<1>3. CASE FailSend(m)
  <2>1. rows' = rows /\ sendPc' = [sendPc EXCEPT ![m] = "idle"] /\ sendPc[m] = "made"
    BY <1>3 DEF FailSend, tableVars
  <2>2. stamp' \in [Messages -> 0..MaxStamp]
    <3>1. 0 \in 0..MaxStamp
      BY MessageAssumption
    <3> QED
      BY <1>3, <1>t, <3>1, StampTyped DEF FailSend
  <2>3. TypeOK'
    BY <1>3, <1>t, <1>p, <2>1, <2>2 DEF FailSend, TypeOK, pageVars, editVars
  <2>4. CallsTracked'
    BY <1>t, <1>p, <2>1 DEF CallsTracked, TypeOK, editVars, Allowed
  <2> QED
    BY <1>p, <2>1, <2>3, <2>4, EditsUntouched DEF IInv
<1>4. CASE PublishSent(m)
  <2>1. rows' = rows /\ sendPc' = [sendPc EXCEPT ![m] = "done"] /\ sendPc[m] = "saved"
    BY <1>4 DEF PublishSent, tableVars
  <2>2. queue' \subseteq Events
    BY <1>4, <1>t DEF PublishSent, TypeOK, Events
  <2>3. TypeOK'
    BY <1>4, <1>t, <1>p, <2>1, <2>2 DEF PublishSent, TypeOK, pageVars, editVars
  <2>4. CallsTracked'
    BY <1>t, <1>p, <2>1 DEF CallsTracked, TypeOK, editVars, Allowed
  <2> QED
    BY <1>p, <2>1, <2>3, <2>4, EditsUntouched DEF IInv
<1> QED
  BY <1>1, <1>2, <1>3, <1>4

\* A Save of an edit takes at most its own message off the list.
LEMMA GoneAtMostOne ==
    ASSUME IInv, NEW e \in Edits, StoreEdit(e)
    PROVE  \/ Listed \ Listed' = {} /\ Cardinality(Listed \ Listed') = 0
           \/ Listed \ Listed' = {e.of} /\ Cardinality(Listed \ Listed') = 1
<1>1. \A m \in Messages : m # e.of => rows'[m] = rows[m]
  BY EditTyped DEF IInv, TypeOK, StoreEdit, SetFlags
<1>2. Listed \ Listed' \subseteq {e.of}
  BY <1>1 DEF Listed
<1>3. CASE Listed \ Listed' = {}
  BY <1>3, FS_EmptySet
<1>4. CASE Listed \ Listed' = {e.of}
  BY <1>4, FS_Singleton
<1> QED
  BY <1>2, <1>3, <1>4

LEMMA StoreStep ==
    ASSUME IInv, NEW e \in Edits, StoreEdit(e)
    PROVE  IInv'
<1>t. TypeOK /\ CallsTracked /\ EditsLast /\ EditedOnce
  BY DEF IInv
<1>l. editPc[e] = "loaded" /\ e.of \in Messages /\ rows[e.of] \in Row
  BY <1>t, EditTyped DEF StoreEdit, CallsTracked, TypeOK
<1>r. rows' = [rows EXCEPT ![e.of] = Edited(e)] /\ Edited(e) \in Row
  BY <1>l, EditedTyped DEF StoreEdit, SetFlags
<1>n. Edited(e) # None
  BY <1>r, MessageAssumption
<1>p. PICK p \in {"saved", "idle"} : editPc' = [editPc EXCEPT ![e] = p]
  BY DEF StoreEdit
<1>o. /\ overlapped \subseteq overlapped'
      /\ overlapped' \subseteq Messages
      /\ e.of \notin overlapped' => editCopy[e] = rows[e.of]
  BY <1>t, <1>l DEF StoreEdit, TypeOK
<1>1. TypeOK'
  <2>1. rows' \in [Messages -> Row \cup {None}]
    BY <1>t, <1>r DEF TypeOK
  <2>2. editPc' \in [Edits -> {"idle", "loaded", "saved", "done"}]
    BY <1>t, <1>p DEF TypeOK
  <2>3. editCopy' \in [Edits -> Row \cup {None}]
    BY <1>t DEF StoreEdit, TypeOK
  <2>4. removed' \subseteq Messages /\ deletions' \in Nat
    <3>1. CASE reading = "reading"
      <4>1. /\ removed' = removed \cup (Listed \ Listed')
            /\ deletions' = deletions + Cardinality(Listed \ Listed')
        BY <3>1 DEF StoreEdit, LeaveList
      <4>2. Listed \ Listed' \subseteq Messages
        BY DEF Listed
      <4>3. Cardinality(Listed \ Listed') \in Nat
        BY GoneAtMostOne
      <4> QED
        BY <4>1, <4>2, <4>3, <1>t DEF TypeOK
    <3>2. CASE reading # "reading"
      <4>1. removed' = removed \cup {} /\ deletions' = deletions + Cardinality({})
        BY <3>2 DEF StoreEdit, LeaveList
      <4> QED
        BY <4>1, <1>t, FS_EmptySet DEF TypeOK
    <3> QED
      BY <3>1, <3>2
  <2> QED
    BY <1>t, <1>o, <2>1, <2>2, <2>3, <2>4 DEF StoreEdit, TypeOK, sendVars
<1>a. \A m \in Messages : rows'[m] = IF m = e.of THEN Edited(e) ELSE rows[m]
  BY <1>t, <1>r DEF TypeOK
<1>b. \A f \in Edits : editPc'[f] = IF f = e THEN p ELSE editPc[f]
  BY <1>t, <1>p DEF TypeOK
<1>c. \A f \in Edits : f # e => editCopy'[f] = editCopy[f]
  BY <1>t DEF StoreEdit, TypeOK
<1>d. \A m \in Messages : (rows'[m] # None) <=> (rows[m] # None)
  BY <1>l, <1>n, <1>a, MessageAssumption
<1>2. CallsTracked'
  <2>1. \A m \in Messages :
           /\ rows'[m] # None <=> sendPc'[m] \in {"saved", "done", "failed"}
           /\ sendPc'[m] # "idle" => SenderOf[m] \in Members[ChatOf[m]]
    BY <1>t, <1>d DEF StoreEdit, CallsTracked, sendVars
  <2>2. \A f \in Edits :
           /\ editPc'[f] # "idle" => rows'[f.of] # None
           /\ editPc'[f] = "loaded" => editCopy'[f] \in Row /\ Allowed(f, editCopy'[f])
    BY <1>t, <1>l, <1>b, <1>c, <1>d, EditTyped DEF CallsTracked
  <2> QED
    BY <2>1, <2>2 DEF CallsTracked, Allowed
<1>s. \A f \in Edits : Succeeded(f)' => f = e \/ Succeeded(f)
  BY <1>b DEF Succeeded
<1>3. EditsLast'
  <2> SUFFICES ASSUME NEW f \in Edits, Succeeded(f)'
               PROVE  rows'[f.of] # None /\ (Shows(f)' \/ f.of \in overlapped')
    BY DEF EditsLast
  <2>1. CASE f = e
    BY <2>1, <1>l, <1>a, <1>n, EditTyped, EditedTyped DEF Shows
  <2>2. CASE f # e
    <3>1. Succeeded(f) /\ f.of \in Messages
      BY <2>2, <1>s, EditTyped
    <3>2. rows[f.of] # None /\ (Shows(f) \/ f.of \in overlapped)
      BY <3>1, <1>t DEF EditsLast
    <3>3. CASE f.of # e.of
      BY <3>1, <3>2, <3>3, <1>a, <1>o DEF Shows
    <3>4. CASE f.of = e.of
      BY <3>1, <3>2, <3>4, <1>a, <1>n, <1>l, <1>o, EditedTyped DEF Shows
    <3> QED
      BY <3>3, <3>4
  <2> QED
    BY <2>1, <2>2
\* A successful edit of the kind shows in the row, and in a copy of the row
\* the flag rules this edit out.
<1>f. \A f \in Edits :
         f # e /\ f.kind = e.kind /\ f.of = e.of /\ Succeeded(f) => e.of \in overlapped'
  <2> SUFFICES ASSUME NEW f \in Edits, f.kind = e.kind, f.of = e.of, Succeeded(f),
                      e.of \notin overlapped'
               PROVE  FALSE
    OBVIOUS
  <2>1. Shows(f) /\ editCopy[e] = rows[e.of]
    BY <1>t, <1>o DEF EditsLast
  <2>2. Allowed(e, editCopy[e])
    BY <1>t, <1>l DEF CallsTracked
  <2> QED
    BY <2>1, <2>2, EditTyped DEF Allowed, Shows
<1>4. EditedOnce'
  <2> SUFFICES ASSUME NEW f \in Edits, NEW g \in Edits, f # g, f.kind = g.kind, f.of = g.of,
                      Succeeded(f)', Succeeded(g)'
               PROVE  f.of \in overlapped'
    BY DEF EditedOnce
  <2>1. CASE f = e
    BY <2>1, <1>s, <1>f
  <2>2. CASE g = e
    BY <2>2, <1>s, <1>f
  <2>3. CASE f # e /\ g # e
    BY <2>3, <1>s, <1>t, <1>o DEF EditedOnce
  <2> QED
    BY <2>1, <2>2, <2>3
<1> QED
  BY <1>1, <1>2, <1>3, <1>4 DEF IInv

LEMMA EditStep ==
    ASSUME IInv, NEW e \in Edits, LoadEdit(e) \/ FailEdit(e) \/ PublishEdit(e)
    PROVE  IInv'
<1>t. TypeOK /\ CallsTracked
  BY DEF IInv
<1>u. rows' = rows /\ overlapped' = overlapped /\ UNCHANGED <<sendVars, pageVars>>
  BY DEF LoadEdit, FailEdit, PublishEdit, tableVars
<1>o. e.of \in Messages
  BY EditTyped
\* None of the three makes an edit succeed that had not.
<1>s. \A f \in Edits : Succeeded(f)' <=> Succeeded(f)
  BY <1>t DEF LoadEdit, FailEdit, PublishEdit, Succeeded, TypeOK
<1>1. EditsLast' /\ EditedOnce'
  BY <1>s, <1>u DEF IInv, EditsLast, EditedOnce, Shows
<1>2. TypeOK'
  <2>1. editPc' \in [Edits -> {"idle", "loaded", "saved", "done"}]
    BY <1>t DEF LoadEdit, FailEdit, PublishEdit, TypeOK
  <2>2. editCopy' \in [Edits -> Row \cup {None}]
    BY <1>t, <1>o DEF LoadEdit, FailEdit, PublishEdit, TypeOK
  <2>3. queue' \subseteq Events
    BY <1>t DEF LoadEdit, FailEdit, PublishEdit, TypeOK, Events
  <2> QED
    BY <1>t, <1>u, <2>1, <2>2, <2>3 DEF TypeOK, sendVars, pageVars
<1>3. \A f \in Edits :
         /\ editPc'[f] # "idle" => rows'[f.of] # None
         /\ editPc'[f] = "loaded" => editCopy'[f] \in Row /\ Allowed(f, editCopy'[f])
  <2>1. CASE LoadEdit(e)
    <3>1. rows[e.of] \in Row /\ rows[e.of] # None /\ Allowed(e, rows[e.of])
      BY <2>1, <1>t, <1>o DEF LoadEdit, TypeOK
    <3>2. /\ editPc' = [editPc EXCEPT ![e] = "loaded"]
          /\ editCopy' = [editCopy EXCEPT ![e] = rows[e.of]]
      BY <2>1 DEF LoadEdit
    <3> QED
      BY <3>1, <3>2, <1>t, <1>u DEF CallsTracked, TypeOK
  <2>2. CASE FailEdit(e)
    BY <2>2, <1>t, <1>u DEF FailEdit, CallsTracked, TypeOK
  <2>3. CASE PublishEdit(e)
    BY <2>3, <1>t, <1>u DEF PublishEdit, CallsTracked, TypeOK
  <2> QED
    BY <2>1, <2>2, <2>3
<1>4. CallsTracked'
  BY <1>3, <1>t, <1>u DEF CallsTracked, Allowed, sendVars
<1> QED
  BY <1>1, <1>2, <1>4 DEF IInv

\* Pushes and pages change neither the table nor a call.
LEMMA OtherStep ==
    ASSUME IInv, (\E v \in Events : Push(v)) \/ BeginReading \/ ReadPage \/ UNCHANGED vars
    PROVE  IInv'
<1>t. TypeOK /\ CallsTracked
  BY DEF IInv
<1>u. UNCHANGED <<rows, overlapped, sendVars, editVars>>
  BY DEF Push, BeginReading, ReadPage, vars, tableVars
<1>1. queue' \subseteq Events
  BY <1>t DEF Push, BeginReading, ReadPage, vars, TypeOK
<1>l. Listed \subseteq Messages
  BY DEF Listed
<1>2. /\ reading' \in {"idle", "reading", "done"} /\ offset' \in Nat
      /\ seen' \subseteq Messages /\ atStart' \subseteq Messages /\ removed' \subseteq Messages
      /\ deletions' \in Nat
  <2>1. CASE ReadPage
    <3>1. \A page \in Pages : page \subseteq Messages
      BY <1>l DEF Pages, Firsts
    <3>2. offset' \in Nat
      BY <2>1, <1>t, MessageAssumption DEF ReadPage, TypeOK
    <3> QED
      BY <2>1, <3>1, <3>2, <1>t DEF ReadPage, TypeOK
  <2>2. CASE BeginReading
    BY <2>2, <1>l, <1>t DEF BeginReading, TypeOK
  <2>3. CASE \E v \in Events : Push(v)
    BY <2>3, <1>t DEF Push, TypeOK, pageVars
  <2>4. CASE UNCHANGED vars
    BY <2>4, <1>t DEF vars, TypeOK, pageVars
  <2> QED
    BY <2>1, <2>2, <2>3, <2>4
<1>3. TypeOK'
  BY <1>t, <1>u, <1>1, <1>2 DEF TypeOK, sendVars, editVars
<1>4. CallsTracked'
  BY <1>t, <1>u DEF CallsTracked, Allowed, sendVars, editVars
<1> QED
  BY <1>u, <1>3, <1>4, EditsUntouched DEF IInv

LEMMA IInvStep == IInv /\ [Next]_vars => IInv'
<1> SUFFICES ASSUME IInv, [Next]_vars PROVE IInv'
  OBVIOUS
<1>1. ASSUME NEW m \in Messages,
             CheckMember(m) \/ Insert(m) \/ FailSend(m) \/ PublishSent(m)
      PROVE  IInv'
  BY <1>1, SendStep
<1>2. ASSUME NEW e \in Edits, LoadEdit(e) \/ StoreEdit(e) \/ FailEdit(e) \/ PublishEdit(e)
      PROVE  IInv'
  BY <1>2, StoreStep, EditStep
<1>3. CASE (\E v \in Events : Push(v)) \/ BeginReading \/ ReadPage \/ UNCHANGED vars
  BY <1>3, OtherStep
<1> QED
  BY <1>1, <1>2, <1>3 DEF Next

\* The inductive invariant holds throughout.
THEOREM MessageInvariant == Spec => []IInv
BY IInvInit, IInvStep, PTL DEF Spec

\* Every variable keeps its type.
THEOREM MessageTypeCorrect == Spec => []TypeOK
<1>1. IInv => TypeOK
  BY DEF IInv
<1> QED
  BY <1>1, MessageInvariant, PTL

\* Only participants of a chat have messages in it, whatever fails in the
\* chat service.
THEOREM WritersAlwaysBelong == Spec => []WritersBelong
<1>1. IInv => WritersBelong
  BY DEF IInv, CallsTracked, WritersBelong
<1> QED
  BY <1>1, MessageInvariant, PTL

\* A successful mark or deletion shows in the table as long as no two edits
\* of the message overlap.
THEOREM EditsAlwaysLast == Spec => []EditsLast
<1>1. IInv => EditsLast
  BY DEF IInv
<1> QED
  BY <1>1, MessageInvariant, PTL

\* Without overlapping edits no message is marked or deleted twice.
THEOREM EditedAtMostOnce == Spec => []EditedOnce
<1>1. IInv => EditedOnce
  BY DEF IInv
<1> QED
  BY <1>1, MessageInvariant, PTL

--------------------------------------------------------------------------------
(* Pages                                                                   *)

\* The sets whose sizes PagesInv speaks of are finite.
LEMMA PagesFinite ==
    ASSUME IInv, PagesInv
    PROVE  /\ Listed \subseteq Stored /\ IsFiniteSet(Listed)
           /\ IsFiniteSet(Missed) /\ IsFiniteSet(Skipped)
           /\ \A m : IsFiniteSet(Before(m)) /\ Cardinality(Before(m)) \in Nat
<1>1. Listed \subseteq Stored /\ Missed \subseteq Stored /\ Skipped \subseteq Stored
  BY DEF PagesInv, Listed, Stored, Missed, Skipped
<1>2. \A m : Before(m) \subseteq Stored
  BY <1>1 DEF Before
<1>3. \A S : S \subseteq Stored => IsFiniteSet(S)
  BY FS_Subset DEF PagesInv
<1>4. \A m : IsFiniteSet(Before(m))
  BY <1>2, <1>3
<1> QED
  BY <1>1, <1>3, <1>4, FS_CardinalityType

\* Without two equal created_at no two messages have one place on the list.
LEMMA PlacesDiffer ==
    ASSUME IInv, PagesInv, ~Tied, NEW x \in Listed, NEW y \in Listed, x # y
    PROVE  Cardinality(Before(x)) # Cardinality(Before(y))
<1>1. stamp[x] \in Nat /\ stamp[y] \in Nat /\ \A z \in Listed : stamp[z] \in Nat
  BY DEF IInv, TypeOK, Listed
<1>2. stamp[x] # stamp[y]
  BY PagesFinite DEF Tied
<1>3. ASSUME NEW a \in Listed, NEW b \in Listed, stamp[a] > stamp[b]
      PROVE  Cardinality(Before(a)) # Cardinality(Before(b))
  <2>1. Before(a) \subseteq Before(b)
    BY <1>1, <1>3 DEF Before
  <2>2. a \in Before(b) /\ a \notin Before(a)
    BY <1>1, <1>3 DEF Before
  <2> QED
    BY <2>1, <2>2, PagesFinite, FS_Subset
<1>4. stamp[x] > stamp[y] \/ stamp[y] > stamp[x]
  BY <1>1, <1>2
<1> QED
  BY <1>3, <1>4

\* No call takes a row away or changes the created_at of one.
LEMMA StoredKept ==
    ASSUME IInv, [Next]_vars
    PROVE  Stored \subseteq Stored' /\ \A m \in Stored : stamp'[m] = stamp[m]
<1>t. TypeOK /\ CallsTracked
  BY DEF IInv
<1>1. ASSUME NEW m \in Messages, CheckMember(m) \/ Insert(m) \/ FailSend(m) \/ PublishSent(m)
      PROVE  Stored \subseteq Stored' /\ \A n \in Stored : stamp'[n] = stamp[n]
  <2>1. CASE Insert(m)
    <3>1. rows[m] = None
      BY <2>1, <1>t DEF Insert, CallsTracked
    <3> QED
      BY <2>1, <3>1, <1>t DEF Insert, Stored, TypeOK
  <2>2. CASE CheckMember(m) \/ FailSend(m)
    <3>1. rows[m] = None
      BY <2>2, <1>t DEF CheckMember, FailSend, CallsTracked
    <3>2. rows' = rows /\ \A n \in Messages : n # m => stamp'[n] = stamp[n]
      BY <2>2, <1>t DEF CheckMember, FailSend, tableVars, TypeOK
    <3> QED
      BY <3>1, <3>2 DEF Stored
  <2>3. CASE PublishSent(m)
    BY <2>3 DEF PublishSent, tableVars, Stored
  <2> QED
    BY <1>1, <2>1, <2>2, <2>3
<1>2. ASSUME NEW e \in Edits, StoreEdit(e)
      PROVE  Stored \subseteq Stored' /\ \A n \in Stored : stamp'[n] = stamp[n]
  <2>1. Edited(e) \in Row /\ Edited(e) # None
    BY <1>2, EditedTyped, MessageAssumption DEF StoreEdit
  <2>2. \A n \in Messages : rows[n] # None => rows'[n] # None
    BY <1>2, <1>t, <2>1, EditTyped DEF StoreEdit, SetFlags, TypeOK
  <2> QED
    BY <1>2, <2>2 DEF StoreEdit, Stored, sendVars
<1>3. CASE UNCHANGED <<rows, stamp>>
  BY <1>3 DEF Stored
<1>4. ASSUME NEW e \in Edits, LoadEdit(e) \/ FailEdit(e) \/ PublishEdit(e)
      PROVE  UNCHANGED <<rows, stamp>>
  BY <1>4 DEF LoadEdit, FailEdit, PublishEdit, tableVars, sendVars
<1>5. (\E v \in Events : Push(v)) \/ BeginReading \/ ReadPage \/ UNCHANGED vars
      => UNCHANGED <<rows, stamp>>
  BY DEF Push, BeginReading, ReadPage, vars, tableVars, sendVars
<1> QED
  BY <1>1, <1>2, <1>3, <1>4, <1>5 DEF Next

\* As long as nothing leaves the list nothing moves to an earlier page.
LEMMA ListGrows ==
    ASSUME IInv, PagesInv, [Next]_vars, UNCHANGED pageVars, IsFiniteSet(Stored)',
           reading = "reading" => Listed \subseteq Listed'
    PROVE  PagesInv'
<1>1. Stored \subseteq Stored' /\ \A m \in Stored : stamp'[m] = stamp[m]
  BY StoredKept
<1>2. Tied => Tied'
  BY <1>1 DEF Tied
<1>3. Missed' = Missed /\ reading' = reading /\ offset' = offset /\ deletions' = deletions
  BY DEF Missed, pageVars
<1>4. ASSUME reading = "reading", ~Tied'
      PROVE  Cardinality(Skipped)' <= deletions
  <2>1. Missed \subseteq Listed /\ Listed \subseteq Listed' /\ Listed \subseteq Stored
    BY <1>4, PagesFinite DEF PagesInv
  <2>2. ASSUME NEW m \in Missed
        PROVE  Before(m) \subseteq Before(m)' /\ IsFiniteSet(Before(m)')
    <3>1. Before(m) \subseteq Before(m)'
      BY <1>1, <2>1 DEF Before
    <3>2. Before(m)' \subseteq Stored'
      BY DEF Before, Listed, Stored
    <3> QED
      BY <3>1, <3>2, FS_Subset
  <2>3. ASSUME NEW m \in Missed
        PROVE  /\ Cardinality(Before(m)) <= Cardinality(Before(m)')
               /\ Cardinality(Before(m)) \in Nat /\ Cardinality(Before(m)') \in Nat
    BY <2>2, FS_Subset, FS_CardinalityType, PagesFinite
  <2>4. Skipped' = {m \in Missed : Cardinality(Before(m)') < offset}
    BY <1>3 DEF Skipped
  <2>5. Skipped' \subseteq Skipped
    BY <2>3, <2>4 DEF Skipped, IInv, TypeOK
  <2>6. Cardinality(Skipped') <= Cardinality(Skipped)
    BY <2>5, PagesFinite, FS_Subset
  <2>7. Cardinality(Skipped) <= deletions
    BY <1>2, <1>4 DEF PagesInv
  <2>8. IsFiniteSet(Skipped) /\ IsFiniteSet(Skipped') 
    BY <2>5, PagesFinite, FS_Subset
  <2> QED
    BY <2>6, <2>7, <2>8, FS_CardinalityType DEF IInv, TypeOK
<1>5. PagesMissOnlyByDeletion'
  BY <1>2, <1>3 DEF PagesInv, PagesMissOnlyByDeletion
<1>6. reading' = "reading" => Missed' \subseteq Listed'
  BY <1>3 DEF PagesInv
<1>7. atStart' \subseteq Stored'
  BY <1>1 DEF PagesInv, pageVars
<1> QED
  BY <1>3, <1>4, <1>5, <1>6, <1>7 DEF PagesInv

LEMMA AddAtMostOne ==
    ASSUME NEW S, NEW x, IsFiniteSet(S)
    PROVE  /\ IsFiniteSet(S \cup {x})
           /\ Cardinality(S \cup {x}) <= Cardinality(S) + 1
           /\ Cardinality(S \cup {x}) \in Nat
           /\ Cardinality(S) \in Nat
<1>1. IsFiniteSet(S \cup {x}) /\ Cardinality(S) \in Nat /\ Cardinality(S \cup {x}) \in Nat
  BY FS_AddElement, FS_CardinalityType
<1>2. CASE x \in S
  <2>1. S \cup {x} = S
    BY <1>2
  <2>2. Cardinality(S \cup {x}) = Cardinality(S)
    BY <2>1, Zenon
  <2> QED
    BY <1>1, <2>2
<1>3. CASE x \notin S
  <2>1. Cardinality(S \cup {x}) = Cardinality(S) + 1
    BY <1>3, FS_AddElement
  <2> QED
    BY <1>1, <2>1
<1> QED
  BY <1>2, <1>3

\* A deletion moves what follows by one place: the one message that comes to
\* stand before the client's offset is made up for.
LEMMA PagesStoreStep ==
    ASSUME IInv, PagesInv, NEW e \in Edits, StoreEdit(e)
    PROVE  PagesInv'
<1>n. [Next]_vars
  BY DEF Next
<1>t. TypeOK
  BY DEF IInv
<1>1. Stored' = Stored
  <2>1. Edited(e) \in Row /\ Edited(e) # None /\ rows[e.of] # None
    BY EditedTyped, MessageAssumption DEF StoreEdit, IInv, CallsTracked
  <2> QED
    BY <1>t, <2>1, EditTyped DEF StoreEdit, SetFlags, Stored, TypeOK
<1>2. UNCHANGED <<stamp, reading, offset, seen, atStart>>
  BY DEF StoreEdit, sendVars
<1>3. IsFiniteSet(Stored)'
  BY <1>1 DEF PagesInv
<1>4. CASE reading # "reading" \/ Listed \ Listed' = {}
  <2>1. removed' = removed \cup {} /\ deletions' = deletions + Cardinality({})
    BY <1>4 DEF StoreEdit, LeaveList
  <2>2. UNCHANGED pageVars
    BY <1>2, <1>t, <2>1, FS_EmptySet DEF pageVars, TypeOK
  <2> QED
    BY <1>n, <1>3, <1>4, <2>2, ListGrows
<1>5. CASE reading = "reading" /\ Listed \ Listed' # {}
  <2>1. Listed \ Listed' = {e.of} /\ Cardinality(Listed \ Listed') = 1
    BY <1>5, GoneAtMostOne
  <2>2. removed' = removed \cup {e.of} /\ deletions' = deletions + 1
    BY <1>5, <2>1 DEF StoreEdit, LeaveList
  <2>3. Missed' = Missed \ {e.of}
    BY <1>2, <2>2 DEF Missed
  <2>4. Missed \subseteq Listed /\ Missed' \subseteq Listed'
    BY <1>5, <2>1, <2>3 DEF PagesInv
  <2>5. ASSUME ~Tied'
        PROVE  Cardinality(Skipped') <= deletions'
    <3> DEFINE Next1 == {m \in Missed : Cardinality(Before(m)) = offset}
    <3>1. ~Tied /\ Cardinality(Skipped) <= deletions
      BY <1>1, <1>2, <1>5, <2>5 DEF Tied, PagesInv
    <3>2. \A x, y \in Next1 : x = y
      BY <2>4, <3>1, PlacesDiffer
    <3>3. PICK z : Next1 \subseteq {z}
      BY <3>2
    <3>4. ASSUME NEW m \in Skipped'
          PROVE  m \in Skipped \cup {z}
      <4>1. m \in Missed /\ Cardinality(Before(m)') < offset
        BY <1>2, <2>3, <3>4 DEF Skipped
      <4>2. Before(m) \subseteq Before(m)' \cup {e.of}
        BY <1>2, <2>1 DEF Before
      <4>3. IsFiniteSet(Before(m)')
        <5>1. Before(m)' \subseteq Stored
          BY <1>1 DEF Before, Listed, Stored
        <5> QED
          BY <5>1, FS_Subset DEF PagesInv
      <4>4. /\ IsFiniteSet(Before(m)' \cup {e.of})
            /\ Cardinality(Before(m)' \cup {e.of}) <= Cardinality(Before(m)') + 1
            /\ Cardinality(Before(m)' \cup {e.of}) \in Nat
            /\ Cardinality(Before(m)') \in Nat
        BY <4>3, AddAtMostOne
      <4>5. Cardinality(Before(m)) <= Cardinality(Before(m)' \cup {e.of})
        BY <4>2, <4>4, FS_Subset
      <4>6. Cardinality(Before(m)) \in Nat
        BY PagesFinite
      <4>7. Cardinality(Before(m)) <= offset
        BY <1>t, <4>1, <4>4, <4>5, <4>6 DEF TypeOK
      <4>8. CASE Cardinality(Before(m)) < offset
        BY <4>1, <4>8 DEF Skipped
      <4>9. CASE Cardinality(Before(m)) = offset
        BY <3>3, <4>1, <4>9
      <4> QED
        BY <1>t, <4>6, <4>7, <4>8, <4>9 DEF TypeOK
    <3>5. Skipped' \subseteq Skipped \cup {z}
      BY <3>4
    <3>6. /\ IsFiniteSet(Skipped \cup {z})
          /\ Cardinality(Skipped \cup {z}) <= Cardinality(Skipped) + 1
          /\ Cardinality(Skipped \cup {z}) \in Nat /\ Cardinality(Skipped) \in Nat
      BY PagesFinite, AddAtMostOne
    <3>7. Cardinality(Skipped') <= Cardinality(Skipped \cup {z}) /\ Cardinality(Skipped') \in Nat
      BY <3>5, <3>6, FS_Subset, FS_CardinalityType
    <3> QED
      BY <1>t, <2>2, <3>1, <3>6, <3>7 DEF TypeOK
  <2>6. PagesMissOnlyByDeletion'
    BY <1>2, <1>5 DEF PagesMissOnlyByDeletion
  <2> QED
    BY <1>1, <1>2, <1>3, <1>5, <2>4, <2>5, <2>6 DEF PagesInv
<1> QED
  BY <1>4, <1>5

\* The client begins with nothing skipped.
LEMMA PagesBeginStep == ASSUME IInv, PagesInv, BeginReading PROVE PagesInv'
<1>1. /\ reading = "idle" /\ reading' = "reading" /\ offset' = offset /\ offset = 0
      /\ atStart' = Listed /\ deletions' = deletions
      /\ UNCHANGED <<rows, stamp, removed, seen>>
  BY DEF BeginReading, tableVars, sendVars, PagesInv
<1>2. Stored' = Stored /\ Listed' = Listed /\ Listed \subseteq Stored
  BY <1>1 DEF Stored, Listed
<1>3. Missed' \subseteq Listed'
  BY <1>1, <1>2 DEF Missed
<1>4. \A m : Before(m)' = Before(m)
  BY <1>1, <1>2 DEF Before
<1>5. Skipped' = {}
  BY <1>1, <1>4, PagesFinite DEF Skipped
<1>6. Cardinality(Skipped') <= deletions'
  BY <1>1, <1>5, FS_EmptySet DEF IInv, TypeOK
<1>7. PagesMissOnlyByDeletion'
  BY <1>1 DEF PagesMissOnlyByDeletion
<1> QED
  BY <1>1, <1>2, <1>3, <1>6, <1>7 DEF PagesInv

\* A page holds every message between the client's offset and its next one.
LEMMA PageComplete ==
    ASSUME IInv, PagesInv, ~Tied, NEW page \in Pages, NEW m \in Listed, m \notin page
    PROVE  /\ Cardinality(Before(m)) < offset + Limit => Cardinality(Before(m)) < offset
           /\ Cardinality(page) < Limit => Cardinality(Before(m)) < offset
<1> DEFINE n == Cardinality(Listed)
           k == Cardinality(Before(m))
<1>n. n \in Nat /\ k \in Nat /\ offset \in Nat /\ Limit \in Nat \ {0}
  BY PagesFinite, FS_CardinalityType, MessageAssumption DEF IInv, TypeOK
<1>s. \A x \in Listed : stamp[x] \in Nat
  BY DEF IInv, TypeOK, Listed
<1>1. PICK F \in Firsts(offset), G \in Firsts(offset + Limit) : F \subseteq G /\ page = G \ F
  BY DEF Pages
<1>2. /\ F \subseteq Listed /\ Cardinality(F) = Least(offset, n)
      /\ G \subseteq Listed /\ Cardinality(G) = Least(offset + Limit, n)
      /\ \A x \in F, y \in Listed \ F : stamp[x] >= stamp[y]
      /\ \A x \in G, y \in Listed \ G : stamp[x] >= stamp[y]
  BY DEF Firsts
<1>3. IsFiniteSet(F) /\ IsFiniteSet(G)
  BY <1>2, PagesFinite, FS_Subset
\* What is among the first is preceded by fewer than those.
<1>4. ASSUME m \in F PROVE k < offset
  <2>1. Before(m) \subseteq F \ {m}
    BY <1>2, <1>4, <1>s DEF Before
  <2>2. Cardinality(F \ {m}) = Cardinality(F) - 1 /\ IsFiniteSet(F \ {m})
    BY <1>3, <1>4, FS_RemoveElement
  <2>3. k <= Cardinality(F) - 1
    BY <2>1, <2>2, FS_Subset
  <2>4. Cardinality(F) <= offset /\ Cardinality(F) \in Nat
    BY <1>2, <1>n DEF Least
  <2> QED
    BY <1>n, <2>3, <2>4
\* What is not among the first is preceded by all of them.
<1>5. ASSUME m \notin G PROVE k >= Cardinality(G)
  <2>1. \A x \in G : stamp[x] # stamp[m]
    BY <1>2, <1>5, PagesFinite DEF Tied
  <2>2. G \subseteq Before(m)
    BY <1>2, <1>5, <1>s, <2>1 DEF Before
  <2> QED
    BY <2>2, PagesFinite, FS_Subset
<1>6. ASSUME m \notin G PROVE n >= offset + Limit /\ Cardinality(G) = offset + Limit
  <2>1. Cardinality(G) # n
    BY <1>2, <1>6, PagesFinite, FS_Subset
  <2> QED
    BY <1>2, <1>n, <2>1 DEF Least
<1>7. ASSUME k < offset + Limit PROVE k < offset
  <2>1. m \in G
    BY <1>n, <1>5, <1>6, <1>7
  <2> QED
    BY <1>1, <1>4, <2>1
<1>8. ASSUME Cardinality(page) < Limit PROVE k < offset
  <2>1. Cardinality(page) = Cardinality(G) - Cardinality(F)
    <3>1. Cardinality(G \ F) = Cardinality(G) - Cardinality(G \cap F)
      BY <1>3, FS_Difference
    <3>2. G \cap F = F
      BY <1>1
    <3> QED
      BY <1>1, <3>1, <3>2
  <2>2. CASE m \notin G
    <3>1. Cardinality(F) <= offset /\ Cardinality(F) \in Nat
      BY <1>2, <1>n DEF Least
    <3> QED
      BY <1>n, <1>6, <1>8, <2>1, <2>2, <3>1
  <2>3. CASE m \in G
    BY <1>1, <1>4, <2>3
  <2> QED
    BY <2>2, <2>3
<1> QED
  BY <1>7, <1>8

LEMMA PagesReadStep == ASSUME IInv, PagesInv, ReadPage PROVE PagesInv'
<1>1. UNCHANGED <<rows, stamp, removed, atStart, deletions>> /\ offset' = offset + Limit
  BY DEF ReadPage, tableVars, sendVars
<1>2. PICK page \in Pages :
         /\ seen' = seen \cup page
         /\ reading' = IF Cardinality(page) < Limit THEN "done" ELSE "reading"
  BY DEF ReadPage
<1>3. Stored' = Stored /\ Listed' = Listed /\ \A m : Before(m)' = Before(m)
  BY <1>1 DEF Stored, Listed, Before
<1>4. Tied' <=> Tied
  BY <1>1, <1>3 DEF Tied
<1>5. Missed' = Missed \ page /\ Missed \subseteq Listed
  BY <1>1, <1>2 DEF Missed, PagesInv, ReadPage
<1>6. ASSUME ~Tied
      PROVE  Cardinality(Skipped) <= deletions /\ Cardinality(Skipped) \in Nat /\ deletions \in Nat
  BY <1>6, PagesFinite, FS_CardinalityType DEF PagesInv, ReadPage, IInv, TypeOK
<1>7. ASSUME ~Tied, reading' = "reading"
      PROVE  Cardinality(Skipped') <= deletions'
  <2>1. Skipped' \subseteq Skipped
    BY <1>1, <1>3, <1>5, <1>7, PageComplete DEF Skipped
  <2>2. Cardinality(Skipped') <= Cardinality(Skipped) /\ Cardinality(Skipped') \in Nat
    BY <2>1, PagesFinite, FS_Subset, FS_CardinalityType
  <2> QED
    BY <1>1, <1>6, <1>7, <2>2
<1>8. ASSUME ~Tied, reading' = "done"
      PROVE  Cardinality(Missed') <= deletions'
  <2>1. Cardinality(page) < Limit
    BY <1>2, <1>8
  <2>2. Missed' \subseteq Skipped
    BY <1>5, <1>8, <2>1, PageComplete DEF Skipped
  <2>3. Cardinality(Missed') <= Cardinality(Skipped) /\ Cardinality(Missed') \in Nat
    BY <2>2, PagesFinite, FS_Subset, FS_CardinalityType
  <2> QED
    BY <1>1, <1>6, <1>8, <2>3
<1>9. PagesMissOnlyByDeletion'
  BY <1>4, <1>8 DEF PagesMissOnlyByDeletion
<1> QED
  BY <1>1, <1>2, <1>3, <1>4, <1>5, <1>7, <1>9 DEF PagesInv

LEMMA PagesInvInit == Init => PagesInv
<1> SUFFICES ASSUME Init PROVE PagesInv
  OBVIOUS
<1>1. Stored = {} /\ atStart = {} /\ reading = "idle" /\ offset = 0
  BY DEF Init, Stored
<1> QED
  BY <1>1, FS_EmptySet DEF PagesInv, PagesMissOnlyByDeletion

LEMMA PagesInvStep == IInv /\ PagesInv /\ [Next]_vars => PagesInv'
<1> SUFFICES ASSUME IInv, PagesInv, [Next]_vars PROVE PagesInv'
  OBVIOUS
<1>1. ASSUME NEW m \in Messages, CheckMember(m) \/ Insert(m) \/ FailSend(m) \/ PublishSent(m)
      PROVE  PagesInv'
  <2>1. UNCHANGED pageVars
    BY <1>1 DEF CheckMember, Insert, FailSend, PublishSent
  <2>2. Stored' = Stored \/ Stored' = Stored \cup {m}
    <3>1. CASE Insert(m)
      <4>1. \A n \in Messages : rows'[n] # None <=> n = m \/ rows[n] # None
        <5> DEFINE new == [read |-> FALSE, deleted |-> FALSE]
        <5>1. new \in Row
          BY DEF Row
        <5>2. rows' = [rows EXCEPT ![m] = new] /\ new # None
          BY <3>1, <5>1, MessageAssumption DEF Insert
        <5>3. \A n \in Messages : rows'[n] = IF n = m THEN new ELSE rows[n]
          BY <5>2 DEF IInv, TypeOK
        <5> HIDE DEF new
        <5> QED
          BY <5>2, <5>3
      <4> QED
        BY <4>1 DEF Stored
    <3>2. CASE CheckMember(m) \/ FailSend(m) \/ PublishSent(m)
      BY <3>2 DEF CheckMember, FailSend, PublishSent, tableVars, Stored
    <3> QED
      BY <1>1, <3>1, <3>2
  <2>3. IsFiniteSet(Stored)'
    BY <2>2, FS_AddElement DEF PagesInv
  <2>4. Listed \subseteq Listed'
    <3>1. CASE Insert(m)
      <4>1. rows[m] = None
        BY <3>1 DEF Insert, IInv, CallsTracked
      <4> QED
        BY <3>1, <4>1 DEF Insert, Listed, IInv, TypeOK
    <3>2. CASE CheckMember(m) \/ FailSend(m) \/ PublishSent(m)
      BY <3>2 DEF CheckMember, FailSend, PublishSent, tableVars, Listed
    <3> QED
      BY <1>1, <3>1, <3>2
  <2> QED
    BY <2>1, <2>3, <2>4, ListGrows
<1>2. ASSUME NEW e \in Edits, StoreEdit(e)
      PROVE  PagesInv'
  BY <1>2, PagesStoreStep
<1>3. CASE UNCHANGED <<rows, pageVars>>
  <2>1. Stored' = Stored /\ Listed' = Listed
    BY <1>3 DEF Stored, Listed
  <2> QED
    BY <1>3, <2>1, ListGrows DEF PagesInv
<1>4. ASSUME NEW e \in Edits, LoadEdit(e) \/ FailEdit(e) \/ PublishEdit(e)
      PROVE  UNCHANGED <<rows, pageVars>>
  BY <1>4 DEF LoadEdit, FailEdit, PublishEdit, tableVars
<1>5. (\E v \in Events : Push(v)) \/ UNCHANGED vars => UNCHANGED <<rows, pageVars>>
  BY DEF Push, vars, tableVars
<1> QED
  BY <1>1, <1>2, <1>3, <1>4, <1>5, PagesBeginStep, PagesReadStep DEF Next

\* A client that pages through a chat misses no more of the messages that
\* were there from the start to the end than were deleted meanwhile, whatever
\* is sent, marked and retried, unless two messages have one created_at.
THEOREM PagesAlwaysMissOnlyByDeletion == Spec => []PagesMissOnlyByDeletion
<1>1. Spec => []PagesInv
  BY MessageInvariant, PagesInvInit, PagesInvStep, PTL DEF Spec
<1>2. PagesInv => PagesMissOnlyByDeletion
  BY DEF PagesInv
<1> QED
  BY <1>1, <1>2, PTL

===============================================================================
