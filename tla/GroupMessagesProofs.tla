------------------------ MODULE GroupMessagesProofs ------------------------
(***************************************************************************)
(* For any members, recipients, batches, tags, keys and bounds: no         *)
(* nullifier is in the log twice, a scan is complete or is known to be cut *)
(* short, the index by view tag and its pages cover the log's direct       *)
(* messages, the identity tree is the complete one of its height, and the  *)
(* state has its types.                                                    *)
(***************************************************************************)
EXTENDS GroupMessages, SequenceTheorems, FiniteSetTheorems, WellFoundedInduction, TLAPS

-----------------------------------------------------------------------------
(* The log                                                                 *)

\* The log is a sequence of what it holds, and every nullifier in it is used.
LogInv ==
    /\ log \in Seq(Range(log))
    /\ NullifierOnce
    /\ \A i \in DOMAIN log : log[i].nullifier \in usedNullifiers

\* A batch, or a single message, posts new nullifiers only, and no two alike.
LEMMA PostKeepsLog ==
    ASSUME LogInv, NEW msgs, msgs \in Seq(Range(msgs)), PostDirect(msgs)
    PROVE  LogInv'
<1> DEFINE len == Len(log)
           k == Len(msgs)
           X == Range(log) \union Range(msgs)
<1>1. log \in Seq(X) /\ msgs \in Seq(X)
  BY SeqMonotonic DEF LogInv
<1>2. log' = log \o msgs
  BY DEF PostDirect
<1>3. /\ log' \in Seq(X)
      /\ len \in Nat /\ k \in Nat /\ DOMAIN log' = 1..(len + k)
      /\ DOMAIN log = 1..len /\ DOMAIN msgs = 1..k
      /\ \A i \in 1..len : log'[i] = log[i]
      /\ \A i \in (len + 1)..(len + k) : i - len \in 1..k /\ log'[i] = msgs[i - len]
  BY <1>1, <1>2, ConcatProperties
<1>4. log' \in Seq(Range(log'))
  BY <1>3, SeqOfRange
<1>5. /\ \A i \in 1..k : msgs[i].nullifier \notin usedNullifiers
      /\ \A i \in 1..k : \A j \in 1..i - 1 : msgs[j].nullifier # msgs[i].nullifier
      /\ usedNullifiers' = usedNullifiers \union {msgs[i].nullifier : i \in 1..k}
  BY <1>3 DEF PostDirect
<1>6. \A i \in 1..len : log[i].nullifier \in usedNullifiers
  BY <1>3 DEF LogInv
<1>7. \A i, j \in 1..len : log[i].nullifier = log[j].nullifier => i = j
  BY <1>3 DEF LogInv, NullifierOnce
<1>8. 1..(len + k) = 1..len \union (len + 1)..(len + k)
  BY <1>3
<1> HIDE DEF len, k, X
<1>9. \A i \in 1..(len + k) : log'[i].nullifier \in usedNullifiers'
  BY <1>3, <1>5, <1>6, <1>8
<1>10. ASSUME NEW i \in 1..(len + k), NEW j \in 1..(len + k), log'[i].nullifier = log'[j].nullifier
       PROVE  i = j
  <2>1. CASE i \in 1..len /\ j \in 1..len
    BY <1>3, <1>7, <1>10, <2>1
  <2>2. CASE i \in 1..len /\ j \in (len + 1)..(len + k)
    BY <1>3, <1>5, <1>6, <1>10, <2>2
  <2>3. CASE j \in 1..len /\ i \in (len + 1)..(len + k)
    BY <1>3, <1>5, <1>6, <1>10, <2>3
  <2>4. CASE i \in (len + 1)..(len + k) /\ j \in (len + 1)..(len + k)
    <3>1. /\ i - len \in 1..k /\ j - len \in 1..k
          /\ msgs[i - len].nullifier = msgs[j - len].nullifier
      BY <1>3, <1>10, <2>4
    <3>2. i - len = j - len
      BY <1>3, <1>5, <3>1
    <3> QED
      BY <1>3, <2>4, <3>2
  <2> QED
    BY <1>8, <2>1, <2>2, <2>3, <2>4
<1> QED
  BY <1>3, <1>4, <1>9, <1>10 DEF LogInv, NullifierOnce

\* A group message, whichever proof comes with it.
LEMMA GroupKeepsLog ==
    ASSUME LogInv, NEW m, NEW proof, NEW root, postGroupMessage(m, proof, root)
    PROVE  /\ LogInv'
           /\ DOMAIN log' = DOMAIN log \union {Len(log) + 1}
           /\ \A i \in DOMAIN log : log'[i] = log[i]
           /\ log'[Len(log) + 1] = m
<1> DEFINE len == Len(log)
           X == Range(log) \union {m}
<1>1. log \in Seq(X)
  BY SeqMonotonic DEF LogInv
<1>2. log' = Append(log, m) /\ m \in X
  BY DEF postGroupMessage
<1>3. /\ log' \in Seq(X) /\ len \in Nat
      /\ DOMAIN log' = 1..(len + 1) /\ DOMAIN log = 1..len
      /\ \A i \in 1..len : log'[i] = log[i]
      /\ log'[len + 1] = m
  BY <1>1, <1>2
<1>4. log' \in Seq(Range(log'))
  BY <1>3, SeqOfRange
<1>5. m.nullifier \notin usedNullifiers /\ usedNullifiers' = usedNullifiers \union {m.nullifier}
  BY DEF postGroupMessage
<1>6. 1..(len + 1) = 1..len \union {len + 1}
  BY <1>3
<1> HIDE DEF len, X
<1>7. /\ \A i \in 1..len : log[i].nullifier \in usedNullifiers
      /\ \A i, j \in 1..len : log[i].nullifier = log[j].nullifier => i = j
  BY <1>3 DEF LogInv, NullifierOnce
<1>8. LogInv'
  BY <1>3, <1>4, <1>5, <1>6, <1>7 DEF LogInv, NullifierOnce
<1> QED
  BY <1>3, <1>6, <1>8 DEF len

\* Of the actions, these two post direct messages, ...
LEMMA DirectKeepsLog ==
    ASSUME LogInv, PostDirectMessage \/ PostBatch
    PROVE  LogInv' /\ \E msgs : msgs \in Seq(DirectMessages) /\ log' = log \o msgs
<1>1. CASE PostDirectMessage
  <2>1. PICK m \in DirectMessages : PostDirect(<<m>>)
    BY <1>1 DEF PostDirectMessage, postDirectMessage
  <2>2. <<m>> \in Seq(DirectMessages)
    OBVIOUS
  <2> QED
    BY <2>1, <2>2, SeqOfRange, PostKeepsLog DEF PostDirect
<1>2. CASE PostBatch
  <2>1. PICK m1 \in DirectMessages, m2 \in DirectMessages : PostDirect(<<m1, m2>>)
    BY <1>2 DEF PostBatch, postDirectMessageBatch
  <2>2. <<m1, m2>> \in Seq(DirectMessages)
    OBVIOUS
  <2> QED
    BY <2>1, <2>2, SeqOfRange, PostKeepsLog DEF PostDirect
<1> QED
  BY <1>1, <1>2

\* A group message is of a group, under a key of its time.
GroupEvent(m, e) == m.kind = "group" /\ m.group \in Group /\ m.key \in 0..e[m.group]

\* What is proved and sent is of a group, and sent with a key of its time.
ProofsInv ==
    /\ epoch \in [Group -> Nat]
    /\ \A p \in proofs : p.group \in Group
    /\ sending # NoSend => sending.proof \in proofs /\ sending.key \in 0..epoch[sending.proof.group]

LEMMA ProofsStep == ProofsInv /\ [Next]_vars => ProofsInv'
<1> SUFFICES ASSUME ProofsInv, [Next]_vars PROVE ProofsInv'
  OBVIOUS
<1> USE DEF ProofsInv
<1>1. CASE UNCHANGED <<epoch, proofs, sending>>
  BY <1>1
<1>2. ASSUME NEW p, p.group \in Group, proofs' = proofs \/ proofs' = proofs \union {p},
             UNCHANGED <<epoch, sending>>
      PROVE  ProofsInv'
  BY <1>2
<1>3. ASSUME NEW g \in Group, Prove(g) PROVE ProofsInv'
  <2> DEFINE x == computeGroupNullifier(Prover, g, epoch[g])
             p == Proof(path.root, g, x, Groth16(path.root, g, x))
  <2>1. p.group \in Group
    BY DEF Proof
  <2>2. (proofs' = proofs \/ proofs' = proofs \union {p}) /\ UNCHANGED <<epoch, sending>>
    BY <1>3 DEF Prove
  <2> HIDE DEF p
  <2> QED
    BY <1>2, <2>1, <2>2
<1>4. ASSUME NEW m \in Member, NEW g \in Group, ProveAsChecked(m, g) PROVE ProofsInv'
  <2> DEFINE x == computeGroupNullifier(m, g, epoch[g])
             p == Proof(getRoot(leaves), g, x, Checked(getRoot(leaves), g, x))
  <2>1. p.group \in Group
    BY DEF Proof
  <2>2. proofs' = proofs \union {p} /\ UNCHANGED <<epoch, sending>>
    BY <1>4 DEF ProveAsChecked
  <2> HIDE DEF p
  <2> QED
    BY <1>2, <2>1, <2>2
<1>5. ASSUME NEW m \in Member, NEW p \in proofs, StartSend(m, p) PROVE ProofsInv'
  <2>1. sending'.proof = p /\ sending'.key = epoch[p.group]
    BY <1>5 DEF StartSend
  <2>2. epoch[p.group] \in 0..epoch[p.group]
    <3>1. epoch[p.group] \in Nat
      OBVIOUS
    <3> QED
      BY <3>1
  <2>3. UNCHANGED <<epoch, proofs>>
    BY <1>5 DEF StartSend, treeVars
  <2> QED
    BY <2>1, <2>2, <2>3
<1>6. CASE SendFails \/ PostSend
  BY <1>6 DEF SendFails, PostSend, treeVars
<1>7. ASSUME NEW g \in Group, RotateGroupKey(g) PROVE ProofsInv'
  <2>1. epoch' = [epoch EXCEPT ![g] = @ + 1] /\ UNCHANGED <<proofs, sending>>
    BY <1>7 DEF RotateGroupKey, treeVars
  <2>2. epoch' \in [Group -> Nat]
    BY <2>1
  <2>3. ASSUME NEW h \in Group, NEW k \in 0..epoch[h] PROVE k \in 0..epoch'[h]
    <3>1. epoch[h] \in Nat /\ (epoch'[h] = epoch[h] \/ epoch'[h] = epoch[h] + 1)
      BY <2>1
    <3> QED
      BY <3>1
  <2> QED
    BY <2>1, <2>2, <2>3
<1>8. CASE UNCHANGED <<treeVars, epoch, sending>>
  BY <1>1, <1>8 DEF treeVars
<1> QED
  BY <1>1, <1>3, <1>4, <1>5, <1>6, <1>7, <1>8 DEF Next, Insert, StartProof, ReadRoot,
     PostDirectMessage, PostBatch, PostWithProof, Consume, Configure, ScanDirect, DirectThrows,
     OpenDirect, PassDirect, ScanGroups, GroupThrows, ScanEvent, CallFails, Throws, ScanReturns,
     Reload, vars

\* ... two may post a group message, and the others leave the hub alone.
LEMMA HubSteps ==
    ASSUME ProofsInv, [Next]_vars
    PROVE  \/ UNCHANGED hubVars
           \/ PostDirectMessage \/ PostBatch
           \/ \E m, p : GroupEvent(m, epoch) /\ postGroupMessage(m, p, p.root)
<1>1. ASSUME NEW p \in proofs, NEW payload, PostWithProof(p, payload)
      PROVE  \E m, q : GroupEvent(m, epoch) /\ postGroupMessage(m, q, q.root)
  <2> DEFINE m == GroupMessage(p, p.nullifier, epoch[p.group], payload)
  <2>1. epoch[p.group] \in Nat /\ p.group \in Group
    BY DEF ProofsInv
  <2>2. m.kind = "group" /\ m.group = p.group /\ m.key = epoch[p.group]
    BY DEF GroupMessage
  <2>3. postGroupMessage(m, p, p.root)
    BY <1>1 DEF PostWithProof
  <2> HIDE DEF m
  <2>4. GroupEvent(m, epoch)
    BY <2>1, <2>2 DEF GroupEvent
  <2> QED
    BY <2>3, <2>4
<1>2. ASSUME PostSend, ~UNCHANGED hubVars
      PROVE  \E m, q : GroupEvent(m, epoch) /\ postGroupMessage(m, q, q.root)
  <2>1. postGroupMessage(Sent, sending.proof, sending.proof.root) /\ sending # NoSend
    BY <1>2 DEF PostSend
  <2>2. Sent.kind = "group" /\ Sent.group = sending.proof.group /\ Sent.key = sending.key
    BY DEF Sent, GroupMessage
  <2>3. GroupEvent(Sent, epoch)
    BY <2>1, <2>2 DEF GroupEvent, ProofsInv
  <2> QED
    BY <2>1, <2>3
<1> QED
  BY <1>1, <1>2 DEF Next, Insert, StartSend, StartProof, ReadRoot, Prove, ProveAsChecked, Consume,
     SendFails, Configure, RotateGroupKey, ScanDirect, DirectThrows, OpenDirect, PassDirect,
     ScanGroups, GroupThrows, ScanEvent, CallFails, Throws, ScanReturns, Reload, vars

LEMMA LogStep == LogInv /\ ProofsInv /\ [Next]_vars => LogInv'
<1> SUFFICES ASSUME LogInv, ProofsInv, [Next]_vars PROVE LogInv'
  OBVIOUS
<1>1. CASE UNCHANGED hubVars
  BY <1>1 DEF LogInv, NullifierOnce, hubVars, Range
<1>2. CASE PostDirectMessage \/ PostBatch
  BY <1>2, DirectKeepsLog
<1>3. ASSUME NEW m, NEW p, postGroupMessage(m, p, p.root) PROVE LogInv'
  BY <1>3, GroupKeepsLog
<1> QED
  BY <1>1, <1>2, <1>3, HubSteps

\* No nullifier is in the log twice, for any sizes of batches and tree, and
\* although anybody may consume nullifiers at the verifier itself.
THEOREM NullifierOnceHolds == Spec => []NullifierOnce
<1>1. Init => LogInv /\ ProofsInv
  BY DEF Init, HubInit, LogInv, NullifierOnce, ProofsInv
<1>2. LogInv => NullifierOnce
  BY DEF LogInv
<1> QED
  BY <1>1, <1>2, LogStep, ProofsStep, PTL DEF Spec

-----------------------------------------------------------------------------
(* The scan                                                                *)

EventOK(m, e) == m \in DirectMessages \/ GroupEvent(m, e)

EventsInv == \A i \in DOMAIN log : EventOK(log[i], epoch)

ScanRecord ==
    [step : {"idle", "direct", "groups"}, todo : SUBSET Nat, seen : Nat,
     direct : SUBSET DirectNullifier, texts : Seq(Nat)]

\* Of the direct messages it queried, a scan has opened those it has passed that
\* open; and once it has opened one, those that are left were not opened before.
HalfOpened(s, events, done) ==
    /\ s.seen <= Len(events)
    /\ s.todo \subseteq {i \in 1..s.seen : events[i].kind = "direct"}
    /\ \A i \in 1..s.seen : i \notin s.todo /\ Opens(events[i]) => events[i].nullifier \in done
    /\ s.direct # {} =>
           \A i \in s.todo : Opens(events[i]) => events[i].nullifier \notin done

\* Of the part of the log it queried, a scan has collected what can be read and
\* is not left to be read, in order, and what is left comes after that.
HalfRead(s, events) ==
    /\ s.seen <= Len(events)
    /\ s.todo \subseteq {i \in 1..s.seen : events[i].kind = "group"}
    /\ \A i \in 1..s.seen :
           (\E k \in DOMAIN s.texts : s.texts[k] = i) <=> (i \notin s.todo /\ Readable(events[i]))
    /\ \A k \in DOMAIN s.texts :
           /\ s.texts[k] \in 1..s.seen
           /\ \A l \in DOMAIN s.texts : k < l => s.texts[k] < s.texts[l]
           /\ \A i \in s.todo : s.texts[k] < i

\* The messages opened are those of the log that open, up to a place.
OpenedBy(events, k) == {events[i].nullifier : i \in {j \in 1..k : Opens(events[j])}}
PrefixInv == \E k \in 0..Len(log) : opened = OpenedBy(log, k)

ScanInv ==
    /\ scan \in ScanRecord
    /\ scan.step = "idle" => scan.direct = {}
    /\ scan.step # "groups" => scan.texts = <<>>
    /\ scan.step = "direct" => HalfOpened(scan, log, opened)
    /\ scan.step = "groups" => HalfRead(scan, log)

\* The reasons to lose a direct message.
EndsScans(m) == ThrowsAlways(m) \/ (m.kind = "group" /\ Undecryptable(m))
LosesDirect == failed \/ \E i \in DOMAIN log : EndsScans(log[i])

\* What was opened was shown, or is held by the scan.
OpenedInv == opened \subseteq shown \union scan.direct \/ LosesDirect

LEMMA DirectFacts ==
    ASSUME NEW m \in DirectMessages
    PROVE  \E r \in Recipient : \E e \in Ephemeral : \E x \in DirectNullifier : \E payload :
               /\ Derived(r, e) # Invalid
               /\ \/ m = DirectMessage(r, e, x, payload)
                  \/ m = WithoutPoint(DirectMessage(r, e, x, payload))
<1> DEFINE Drawn == {c \in Recipient \X Ephemeral \X DirectNullifier : Derived(c[1], c[2]) # Invalid}
           Sound == {DirectMessage(d[1], d[2], d[3], "text") : d \in Drawn}
           Others == {[y EXCEPT !.payload = z] : y \in {y \in Sound : y.to = reader},
                                                 z \in {"nothing", "garbage"}}
<1>1. m \in Sound \union {WithoutPoint(y) : y \in Sound} \union Others
  BY DEF DirectMessages
<1>2. ASSUME NEW y \in Sound
      PROVE  \E r \in Recipient : \E e \in Ephemeral : \E x \in DirectNullifier :
                 Derived(r, e) # Invalid /\ y = DirectMessage(r, e, x, "text")
  <2>1. PICK d \in Drawn : y = DirectMessage(d[1], d[2], d[3], "text")
    OBVIOUS
  <2>2. d[1] \in Recipient /\ d[2] \in Ephemeral /\ d[3] \in DirectNullifier
    OBVIOUS
  <2> QED
    BY <2>1, <2>2
<1> HIDE DEF Sound
<1>3. CASE m \in Sound
  BY <1>2, <1>3
<1>4. CASE m \in {WithoutPoint(y) : y \in Sound}
  BY <1>2, <1>4
<1>5. CASE m \in Others
  <2>1. PICK y \in Sound, z \in {"nothing", "garbage"} : m = [y EXCEPT !.payload = z]
    BY <1>5
  <2>2. PICK r \in Recipient, e \in Ephemeral, x \in DirectNullifier :
            Derived(r, e) # Invalid /\ y = DirectMessage(r, e, x, "text")
    BY <1>2
  <2>3. m = DirectMessage(r, e, x, z)
    BY <2>1, <2>2 DEF DirectMessage
  <2> QED
    BY <2>2, <2>3
<1> QED
  BY <1>1, <1>3, <1>4, <1>5

LEMMA DirectParts ==
    ASSUME NEW m \in DirectMessages
    PROVE  m.kind = "direct" /\ m.nullifier \in DirectNullifier /\ m.commitment \in DirectNullifier
<1>1. PICK r \in Recipient, e \in Ephemeral, x \in DirectNullifier :
          \E payload : \/ m = DirectMessage(r, e, x, payload)
                       \/ m = WithoutPoint(DirectMessage(r, e, x, payload))
  BY DirectFacts
<1>2. PICK payload : \/ m = DirectMessage(r, e, x, payload)
                     \/ m = WithoutPoint(DirectMessage(r, e, x, payload))
  BY <1>1
<1>3. CASE m = DirectMessage(r, e, x, payload)
  BY <1>3 DEF DirectMessage
<1>4. CASE m = WithoutPoint(DirectMessage(r, e, x, payload))
  BY <1>4 DEF DirectMessage, WithoutPoint
<1> QED
  BY <1>2, <1>3, <1>4

\* The log only grows, by events of their kinds.
Grows ==
    /\ Len(log) \in Nat /\ Len(log') \in Nat /\ Len(log) <= Len(log')
    /\ DOMAIN log = 1..Len(log) /\ DOMAIN log' = 1..Len(log')
    /\ \A i \in 1..Len(log) : log'[i] = log[i]
    /\ \A i \in 1..Len(log') : i > Len(log) => EventOK(log'[i], epoch)

LEMMA Domains == LogInv => Len(log) \in Nat /\ DOMAIN log = 1..Len(log)
BY DEF LogInv

LEMMA LogGrows ==
    ASSUME LogInv, ProofsInv, [Next]_vars
    PROVE  Grows
<1> USE Domains
<1>1. CASE UNCHANGED hubVars
  BY <1>1 DEF Grows, hubVars
<1>2. CASE PostDirectMessage \/ PostBatch
  <2>1. PICK msgs : msgs \in Seq(DirectMessages) /\ log' = log \o msgs
    BY <1>2, DirectKeepsLog
  <2> DEFINE X == Range(log) \union DirectMessages
  <2>2. log \in Seq(X) /\ msgs \in Seq(X)
    BY <2>1, SeqMonotonic DEF LogInv
  <2>3. /\ Len(msgs) \in Nat /\ Len(log') = Len(log) + Len(msgs)
        /\ DOMAIN log' = 1..(Len(log) + Len(msgs))
        /\ \A i \in DOMAIN log' : log'[i] = IF i <= Len(log) THEN log[i] ELSE msgs[i - Len(log)]
    BY <2>1, <2>2, ConcatProperties
  <2> HIDE DEF X
  <2>4. ASSUME NEW i \in 1..Len(log'), i > Len(log) PROVE log'[i] \in DirectMessages
    <3>1. i - Len(log) \in 1..Len(msgs) /\ log'[i] = msgs[i - Len(log)]
      BY <2>3, <2>4
    <3> QED
      BY <2>1, <3>1
  <2> QED
    BY <2>3, <2>4 DEF Grows, EventOK
<1>3. ASSUME NEW m, NEW p, GroupEvent(m, epoch), postGroupMessage(m, p, p.root) PROVE Grows
  <2>1. EventOK(m, epoch)
    BY <1>3 DEF EventOK
  <2>3. /\ LogInv'
        /\ DOMAIN log' = DOMAIN log \union {Len(log) + 1}
        /\ \A i \in DOMAIN log : log'[i] = log[i]
        /\ log'[Len(log) + 1] = m
    BY <1>3, GroupKeepsLog
  <2>4. Len(log') \in Nat /\ DOMAIN log' = 1..Len(log')
    BY <2>3 DEF LogInv
  <2>5. Len(log') = Len(log) + 1
    <3>1. Len(log) + 1 \in 1..Len(log') /\ \A i \in 1..Len(log') : i <= Len(log) + 1
      BY <2>3, <2>4
    <3>2. Len(log) \in Nat
      BY Domains
    <3>3. Len(log') \in 1..Len(log')
      BY <2>4, <3>1, <3>2
    <3>4. Len(log') <= Len(log) + 1
      BY <3>1, <3>3
    <3>5. Len(log) + 1 <= Len(log')
      BY <2>4, <3>1, <3>2
    <3>6. Len(log') \in Nat
      BY <2>4
    <3> QED
      BY ONLY <3>2, <3>4, <3>5, <3>6
  <2> QED
    BY <2>1, <2>3, <2>4, <2>5 DEF Grows
<1> QED
  BY <1>1, <1>2, <1>3, HubSteps

\* What a step leaves of the reader ...
LEMMA Steps ==
    ASSUME [Next]_vars
    PROVE  \/ UNCHANGED readerVars
           \/ ScanDirect \/ DirectThrows \/ OpenDirect \/ PassDirect
           \/ ScanGroups \/ GroupThrows \/ ScanEvent \/ CallFails \/ ScanReturns \/ Reload
BY DEF Next, Insert, StartSend, StartProof, ReadRoot, Prove, ProveAsChecked, Consume, SendFails,
       Configure, RotateGroupKey, PostDirectMessage, PostBatch, PostWithProof, PostSend, vars

\* ... and of the groups' keys.
LEMMA EpochStep ==
    ASSUME ProofsInv, [Next]_vars
    PROVE  \A g \in Group : epoch[g] \in Nat /\ epoch'[g] \in Nat /\ epoch[g] <= epoch'[g]
<1>1. \A g \in Group : epoch[g] \in Nat
  BY DEF ProofsInv
<1>2. CASE epoch' = epoch
  BY <1>1, <1>2
<1>3. ASSUME NEW h \in Group, RotateGroupKey(h)
      PROVE  \A g \in Group : epoch'[g] \in Nat /\ epoch[g] <= epoch'[g]
  <2>1. \A g \in Group : epoch'[g] = epoch[g] \/ epoch'[g] = epoch[g] + 1
    BY <1>3 DEF RotateGroupKey, ProofsInv
  <2> QED
    BY <1>1, <2>1
<1> QED
  BY <1>1, <1>2, <1>3 DEF Next, Insert, StartSend, StartProof, ReadRoot, Prove, ProveAsChecked,
     Consume, SendFails, Configure, PostDirectMessage, PostBatch, PostWithProof, PostSend,
     ScanDirect, DirectThrows, OpenDirect, PassDirect, ScanGroups, GroupThrows, ScanEvent,
     CallFails, Throws, ScanReturns, Reload, vars

LEMMA EventsStep ==
    ASSUME LogInv, ProofsInv, EventsInv, [Next]_vars
    PROVE  EventsInv'
<1>1. Grows
  BY LogGrows
<1>2. ASSUME NEW m, EventOK(m, epoch) PROVE EventOK(m, epoch')
  <2>1. CASE m \in DirectMessages
    BY <2>1 DEF EventOK
  <2>2. CASE GroupEvent(m, epoch)
    <3>1. m.kind = "group" /\ m.group \in Group /\ m.key \in 0..epoch[m.group]
      BY <2>2 DEF GroupEvent
    <3>2. epoch[m.group] \in Nat /\ epoch'[m.group] \in Nat /\ epoch[m.group] <= epoch'[m.group]
      BY <3>1, EpochStep
    <3>3. m.key \in 0..epoch'[m.group]
      BY <3>1, <3>2
    <3> QED
      BY <3>1, <3>3 DEF EventOK, GroupEvent
  <2> QED
    BY <1>2, <2>1, <2>2 DEF EventOK
<1>3. ASSUME NEW i \in 1..Len(log') PROVE EventOK(log'[i], epoch')
  <2>1. CASE i <= Len(log)
    <3>1. i \in 1..Len(log) /\ log'[i] = log[i]
      BY <1>1, <2>1 DEF Grows
    <3> QED
      BY <1>1, <1>2, <3>1 DEF EventsInv, Grows
  <2>2. CASE i > Len(log)
    BY <1>1, <1>2, <2>2 DEF Grows
  <2> QED
    BY <1>1, <2>1, <2>2 DEF Grows
<1> QED
  BY <1>1, <1>3 DEF EventsInv, Grows

\* What is true of a part of the log stays true of it.
LEMMA HalfReadLater ==
    ASSUME Grows, NEW s \in ScanRecord, HalfRead(s, log)
    PROVE  HalfRead(s, log')
<1>1. /\ s.seen \in Nat /\ Len(log) \in Nat /\ Len(log') \in Nat
      /\ Len(log) <= Len(log') /\ s.seen <= Len(log)
  BY DEF Grows, HalfRead, ScanRecord
<1>2. \A i \in 1..s.seen : i \in 1..Len(log)
  BY <1>1
<1>3. \A i \in 1..s.seen : log'[i] = log[i]
  BY <1>2 DEF Grows
<1>4. s.seen <= Len(log')
  BY <1>1
<1> QED
  BY <1>3, <1>4 DEF HalfRead, Readable, RecoversAuthor

\* The loop reads the oldest event that is left.
LEMMA HalfReadOn ==
    ASSUME NEW s \in ScanRecord, NEW events, HalfRead(s, events),
           NEW i \in s.todo, \A j \in s.todo : i <= j, events[i].payload # "garbage",
           NEW t, t = [s EXCEPT !.todo = @ \ {i},
                           !.texts = IF RecoversAuthor(events[i]) THEN Append(@, i) ELSE @]
    PROVE  t \in ScanRecord /\ HalfRead(t, events)
<1> DEFINE a == s.texts
           b == t.texts
<1>1. /\ s.seen \in Nat /\ s.todo \in SUBSET Nat /\ a \in Seq(Nat) /\ i \in Nat
      /\ Len(a) \in Nat /\ DOMAIN a = 1..Len(a)
  BY DEF ScanRecord
<1>2. /\ t.seen = s.seen /\ t.todo = s.todo \ {i} /\ t.step = s.step /\ t.direct = s.direct
      /\ b = IF RecoversAuthor(events[i]) THEN Append(a, i) ELSE a
      /\ t = [step |-> s.step, todo |-> s.todo \ {i}, seen |-> s.seen, direct |-> s.direct,
              texts |-> b]
  BY DEF ScanRecord
<1>3. i \in 1..s.seen /\ events[i].kind = "group"
  BY DEF HalfRead
<1>4. /\ s.seen <= Len(events)
      /\ s.todo \subseteq {j \in 1..s.seen : events[j].kind = "group"}
      /\ \A j \in 1..s.seen :
             (\E k \in DOMAIN a : a[k] = j) <=> (j \notin s.todo /\ Readable(events[j]))
      /\ \A k \in DOMAIN a :
             /\ a[k] \in 1..s.seen
             /\ \A l \in DOMAIN a : k < l => a[k] < a[l]
             /\ \A j \in s.todo : a[k] < j
  BY DEF HalfRead
<1>5. Readable(events[i]) <=> RecoversAuthor(events[i])
  BY <1>3 DEF Readable, RecoversAuthor
<1>6. b \in Seq(Nat)
  BY <1>1, <1>2
<1>7. t \in ScanRecord
  BY <1>1, <1>2, <1>6 DEF ScanRecord
<1>8. t.todo \subseteq {j \in 1..t.seen : events[j].kind = "group"}
  BY <1>2, <1>4
<1>9. ASSUME NEW j \in t.todo PROVE j \in s.todo /\ i < j
  <2>1. j \in s.todo /\ j # i /\ i <= j
    BY <1>2, <1>9
  <2> QED
    BY <1>1, <2>1
<1>10. CASE RecoversAuthor(events[i])
  <2>1. b = Append(a, i)
    BY <1>2, <1>10
  <2>2. /\ DOMAIN b = 1..(Len(a) + 1) /\ b[Len(a) + 1] = i
        /\ \A k \in 1..Len(a) : b[k] = a[k]
        /\ \A k \in DOMAIN b : k \in 1..Len(a) \/ k = Len(a) + 1
    BY <1>1, <2>1
  <2> HIDE DEF a, b
  <2>3. ASSUME NEW j \in 1..s.seen
        PROVE  (\E k \in DOMAIN b : b[k] = j) <=> (j \notin t.todo /\ Readable(events[j]))
    <3>1. (\E k \in DOMAIN b : b[k] = j) <=> (j = i \/ \E k \in DOMAIN a : a[k] = j)
      <4>1. \A k \in 1..Len(a) : k \in DOMAIN b
        BY <1>1, <2>2
      <4>2. Len(a) + 1 \in DOMAIN b
        BY <1>1, <2>2
      <4> QED
        BY <1>1, <2>2, <4>1, <4>2
    <3> QED
      BY <1>2, <1>4, <1>5, <1>10, <3>1
  <2>4. ASSUME NEW k \in DOMAIN b
        PROVE  /\ b[k] \in 1..s.seen
               /\ \A l \in DOMAIN b : k < l => b[k] < b[l]
               /\ \A j \in t.todo : b[k] < j
    <3>1. CASE k \in 1..Len(a)
      <4>1. b[k] = a[k] /\ a[k] \in 1..s.seen /\ a[k] < i
        BY <1>1, <1>4, <2>2, <3>1
      <4>2. ASSUME NEW l \in DOMAIN b, k < l PROVE b[k] < b[l]
        BY <1>1, <1>4, <2>2, <3>1, <4>1, <4>2
      <4>3. \A j \in t.todo : a[k] < j
        BY <1>1, <1>4, <1>9, <3>1
      <4> QED
        BY <4>1, <4>2, <4>3
    <3>2. CASE k = Len(a) + 1
      <4>1. ASSUME NEW l \in DOMAIN b, k < l PROVE FALSE
        BY <1>1, <2>2, <3>2, <4>1
      <4> QED
        BY <1>3, <1>9, <2>2, <3>2, <4>1
    <3> QED
      BY <2>2, <3>1, <3>2
  <2> QED
    BY <1>2, <1>4, <1>7, <1>8, <2>3, <2>4 DEF HalfRead, b
<1>11. CASE ~RecoversAuthor(events[i])
  <2>1. b = a
    BY <1>2, <1>11
  <2> HIDE DEF a, b
  <2>2. ASSUME NEW j \in 1..s.seen
        PROVE  (\E k \in DOMAIN b : b[k] = j) <=> (j \notin t.todo /\ Readable(events[j]))
    BY <1>2, <1>4, <1>5, <1>11, <2>1
  <2>3. ASSUME NEW k \in DOMAIN b, NEW j \in t.todo PROVE b[k] < j
    BY <1>4, <1>9, <2>1
  <2> QED
    BY <1>2, <1>4, <1>7, <1>8, <2>1, <2>2, <2>3 DEF HalfRead, a, b
<1> QED
  BY <1>10, <1>11

LEMMA HalfOpenedLater ==
    ASSUME Grows, NEW s \in ScanRecord, NEW done, HalfOpened(s, log, done)
    PROVE  HalfOpened(s, log', done)
<1>1. /\ s.seen \in Nat /\ Len(log) \in Nat /\ Len(log') \in Nat
      /\ Len(log) <= Len(log') /\ s.seen <= Len(log)
  BY DEF Grows, HalfOpened, ScanRecord
<1>2. \A i \in 1..s.seen : i \in 1..Len(log)
  BY <1>1
<1>3. \A i \in 1..s.seen : log'[i] = log[i]
  BY <1>2 DEF Grows
<1>4. s.seen <= Len(log')
  BY <1>1
<1>5. \A i \in s.todo : i \in 1..s.seen
  BY DEF HalfOpened
<1> QED
  BY <1>3, <1>4, <1>5 DEF HalfOpened

LEMMA IdleScan == NoScan \in ScanRecord /\ NoScan.step = "idle" /\ NoScan.direct = {}
BY DEF NoScan, ScanRecord

LEMMA IdleText == NoScan.texts = <<>>
BY DEF NoScan

\* What a query leaves of the scan.
LEMMA Queried ==
    ASSUME LogInv, scan \in ScanRecord, NEW step \in {"direct", "groups"}, NEW kind,
           Query(step, kind)
    PROVE  /\ scan' \in ScanRecord
           /\ scan' = [step |-> step, todo |-> {i \in 1..Len(log) : log[i].kind = kind},
                       seen |-> Len(log), direct |-> scan.direct, texts |-> scan.texts]
<1> DEFINE todo == {i \in 1..Len(log) : log[i].kind = kind}
           t1 == [scan EXCEPT !.step = step]
           t2 == [t1 EXCEPT !.seen = Len(log)]
<1>1. Len(log) \in Nat /\ DOMAIN log = 1..Len(log)
  BY Domains
<1>2. scan' = [t2 EXCEPT !.todo = todo] /\ todo \in SUBSET Nat
  BY <1>1 DEF Query
<1>3. t1 = [step |-> step, todo |-> scan.todo, seen |-> scan.seen,
            direct |-> scan.direct, texts |-> scan.texts]
  BY DEF ScanRecord
<1> HIDE DEF t1, todo
<1>4. t2 = [step |-> step, todo |-> scan.todo, seen |-> Len(log),
            direct |-> scan.direct, texts |-> scan.texts]
  BY <1>3
<1> HIDE DEF t2
<1>5. scan' = [step |-> step, todo |-> todo, seen |-> Len(log),
               direct |-> scan.direct, texts |-> scan.texts]
  BY <1>2, <1>4
<1>6. scan.direct \in SUBSET DirectNullifier /\ scan.texts \in Seq(Nat)
      /\ step \in {"idle", "direct", "groups"}
  BY DEF ScanRecord
<1>7. scan' \in ScanRecord
  <2>1. todo \in SUBSET Nat /\ Len(log) \in Nat
    BY <1>1, <1>2
  <2> QED
    BY ONLY <1>5, <1>6, <2>1 DEF ScanRecord
<1> QED
  BY <1>5, <1>7 DEF todo

\* Two places of the log do not have the same nullifier, and a message that
\* opens has one of the direct messages'.
LEMMA OpensFacts ==
    ASSUME EventsInv, NEW i \in DOMAIN log, Opens(log[i])
    PROVE  log[i].kind = "direct" /\ log[i].nullifier \in DirectNullifier
<1>1. log[i].kind = "direct"
  BY DEF Opens, ForReader
<1>2. log[i] \in DirectMessages
  BY <1>1 DEF EventsInv, EventOK, GroupEvent
<1> QED
  BY <1>1, <1>2, DirectParts

\* Messages open in the order of the log.
LEMMA InTurn ==
    ASSUME LogInv, PrefixInv, NEW i \in DOMAIN log, NEW j \in DOMAIN log, i < j,
           Opens(log[i]), Opens(log[j]), log[j].nullifier \in opened
    PROVE  log[i].nullifier \in opened
<1>1. Len(log) \in Nat /\ DOMAIN log = 1..Len(log)
  BY Domains
<1>2. PICK k \in 0..Len(log) : opened = OpenedBy(log, k)
  BY DEF PrefixInv
<1>3. PICK l \in 1..k : Opens(log[l]) /\ log[l].nullifier = log[j].nullifier
  BY <1>2 DEF OpenedBy
<1>4. l \in DOMAIN log
  BY <1>1, <1>3
<1>5. l = j
  BY <1>3, <1>4 DEF LogInv, NullifierOnce
<1>6. i \in 1..k
  BY <1>1, <1>5
<1> QED
  BY <1>2, <1>6 DEF OpenedBy

\* What the loop leaves of the record when it passes an event.
LEMMA Passed ==
    ASSUME NEW s \in ScanRecord, NEW i
    PROVE  LET t == [s EXCEPT !.todo = @ \ {i}]
           IN  /\ t \in ScanRecord /\ t.todo = s.todo \ {i} /\ t.direct = s.direct
               /\ t.step = s.step /\ t.seen = s.seen /\ t.texts = s.texts
BY DEF ScanRecord

ReadingInv == LogInv /\ ProofsInv /\ EventsInv /\ PrefixInv /\ ScanInv

\* The message that OpenDirect opens.
LEMMA Opening ==
    ASSUME ReadingInv, OpenDirect
    PROVE  \E i \in scan.todo :
               /\ Reading(i) /\ Opens(log[i]) /\ log[i].nullifier \notin opened
               /\ i \in 1..Len(log) /\ i \in 1..scan.seen
               /\ Len(log) \in Nat /\ scan.seen \in Nat
               /\ log[i].nullifier \in DirectNullifier
               /\ opened' = opened \union {log[i].nullifier}
               /\ scan' \in ScanRecord /\ scan'.todo = scan.todo \ {i}
               /\ scan'.direct = scan.direct \union {log[i].nullifier}
               /\ scan'.step = "direct" /\ scan'.seen = scan.seen /\ scan'.texts = scan.texts
               /\ HalfOpened(scan, log, opened) /\ scan.step = "direct"
               /\ log' = log /\ shown' = shown
<1>1. PICK i \in scan.todo :
          /\ Reading(i) /\ Opens(log[i]) /\ log[i].nullifier \notin opened
          /\ opened' = opened \union {log[i].nullifier}
          /\ scan' = [scan EXCEPT !.todo = @ \ {i}, !.direct = @ \union {log[i].nullifier}]
  BY DEF OpenDirect
<1>2. /\ scan \in ScanRecord /\ HalfOpened(scan, log, opened) /\ scan.step = "direct"
      /\ log' = log /\ shown' = shown
  BY DEF OpenDirect, ReadingInv, ScanInv, hubVars
<1>3. i \in 1..scan.seen /\ scan.seen <= Len(log) /\ scan.seen \in Nat
      /\ Len(log) \in Nat /\ DOMAIN log = 1..Len(log)
  BY <1>2, Domains DEF HalfOpened, ScanRecord, ReadingInv
<1>4. i \in 1..Len(log)
  BY <1>3
<1>5. log[i].nullifier \in DirectNullifier
  BY <1>1, <1>3, <1>4, OpensFacts DEF ReadingInv
<1> DEFINE direct == scan.direct \union {log[i].nullifier}
<1>6. direct \in SUBSET DirectNullifier
  BY <1>2, <1>5 DEF ScanRecord
<1>7. scan' = [scan EXCEPT !.todo = @ \ {i}, !.direct = direct]
  BY <1>1
<1> HIDE DEF direct
<1>8. /\ scan' \in ScanRecord /\ scan'.todo = scan.todo \ {i} /\ scan'.direct = direct
      /\ scan'.step = scan.step /\ scan'.seen = scan.seen /\ scan'.texts = scan.texts
  BY <1>2, <1>6, <1>7 DEF ScanRecord
<1>9. scan'.direct = scan.direct \union {log[i].nullifier}
  BY <1>8 DEF direct
<1> WITNESS i \in scan.todo
<1> QED
  BY <1>1, <1>2, <1>3, <1>4, <1>5, <1>8, <1>9

LEMMA PrefixStep ==
    ASSUME ReadingInv, [Next]_vars
    PROVE  PrefixInv'
<1>1. Grows
  BY LogGrows DEF ReadingInv
<1>2. PICK k \in 0..Len(log) : opened = OpenedBy(log, k)
  BY DEF ReadingInv, PrefixInv
<1>3. k \in 0..Len(log') /\ \A i \in 1..k : log'[i] = log[i]
  <2>1. \A i \in 1..k : i \in 1..Len(log)
    BY <1>1 DEF Grows
  <2>2. k \in 0..Len(log')
    BY <1>1 DEF Grows
  <2> QED
    BY <1>1, <2>1, <2>2 DEF Grows
<1>4. CASE opened' = opened
  <2>1. OpenedBy(log', k) = OpenedBy(log, k)
    BY <1>3 DEF OpenedBy
  <2> QED
    BY <1>2, <1>3, <1>4, <2>1 DEF PrefixInv
<1>5. CASE Reload
  <2>1. opened' = {} /\ OpenedBy(log', 0) = {} /\ 0 \in 0..Len(log')
    BY <1>1, <1>5 DEF Reload, OpenedBy, Grows
  <2> QED
    BY <2>1 DEF PrefixInv
<1>6. CASE OpenDirect
  <2>1. PICK i \in scan.todo :
            /\ Reading(i) /\ Opens(log[i]) /\ log[i].nullifier \notin opened
            /\ i \in 1..Len(log) /\ i \in 1..scan.seen
            /\ Len(log) \in Nat /\ scan.seen \in Nat
            /\ opened' = opened \union {log[i].nullifier}
            /\ HalfOpened(scan, log, opened) /\ log' = log
    BY <1>6, Opening
  <2>2. k < i
    <3> SUFFICES ASSUME i \in 1..k PROVE FALSE
      BY <2>1
    <3> QED
      BY <1>2, <2>1 DEF OpenedBy
  <2>3. ASSUME NEW j \in 1..i, Opens(log[j]) PROVE log[j].nullifier \in opened'
    <3>1. CASE j = i
      BY <2>1, <3>1
    <3>2. CASE j # i
      <4>1. j \in Nat /\ ~(i <= j) /\ j \in 1..scan.seen
        BY <2>1, <3>2
      <4>2. j \notin scan.todo
        BY <2>1, <4>1 DEF Reading
      <4> QED
        BY <2>1, <2>3, <4>1, <4>2 DEF HalfOpened
    <3> QED
      BY <3>1, <3>2
  <2>4. ASSUME NEW x \in opened' PROVE x \in OpenedBy(log', i)
    <3>1. CASE x = log[i].nullifier
      <4>1. i \in 1..i
        BY <2>1
      <4> QED
        BY <2>1, <3>1, <4>1 DEF OpenedBy
    <3>2. CASE x \in opened
      <4>1. PICK j \in 1..k : Opens(log[j]) /\ x = log[j].nullifier
        BY <1>2, <3>2 DEF OpenedBy
      <4>2. j \in 1..i
        BY <2>1, <2>2
      <4> QED
        BY <2>1, <4>1, <4>2 DEF OpenedBy
    <3> QED
      BY <2>1, <2>4, <3>1, <3>2
  <2>5. opened' = OpenedBy(log', i) /\ i \in 0..Len(log')
    BY <2>1, <2>3, <2>4 DEF OpenedBy
  <2> QED
    BY <2>5 DEF PrefixInv
<1> QED
  BY <1>4, <1>5, <1>6, Steps DEF ScanDirect, DirectThrows, PassDirect, ScanGroups, GroupThrows,
     ScanEvent, CallFails, Throws, ScanReturns, readerVars

LEMMA ScanStep ==
    ASSUME ReadingInv, [Next]_vars
    PROVE  ScanInv'
<1>1. Grows
  BY LogGrows DEF ReadingInv
<1>s. scan \in ScanRecord /\ Len(log) \in Nat /\ DOMAIN log = 1..Len(log)
  BY Domains DEF ScanInv, ReadingInv
<1>2. CASE scan' = scan /\ opened' = opened
  BY <1>1, <1>2, HalfReadLater, HalfOpenedLater DEF ScanInv, ReadingInv
<1>3. CASE scan' = NoScan
  BY <1>3, IdleScan, IdleText DEF ScanInv
<1>4. CASE ScanDirect
  <2>1. Query("direct", "direct") /\ scan.step = "idle" /\ log' = log /\ opened' = opened
    BY <1>4 DEF ScanDirect, hubVars
  <2>2. scan.direct = {} /\ scan.texts = <<>>
    BY <2>1 DEF ScanInv, ReadingInv
  <2>3. /\ scan' \in ScanRecord
        /\ scan' = [step |-> "direct", todo |-> {i \in 1..Len(log) : log[i].kind = "direct"},
                    seen |-> Len(log), direct |-> scan.direct, texts |-> scan.texts]
    BY <1>s, <2>1, Queried DEF ReadingInv
  <2>4. HalfOpened(scan', log, opened)
    BY <1>s, <2>2, <2>3 DEF HalfOpened, Opens, ForReader
  <2> QED
    BY <2>1, <2>2, <2>3, <2>4 DEF ScanInv
<1>5. CASE OpenDirect
  <2>1. PICK i \in scan.todo :
            /\ Reading(i) /\ Opens(log[i]) /\ log[i].nullifier \notin opened
            /\ i \in 1..Len(log) /\ i \in 1..scan.seen
            /\ opened' = opened \union {log[i].nullifier}
            /\ scan' \in ScanRecord /\ scan'.todo = scan.todo \ {i}
            /\ scan'.step = "direct" /\ scan'.seen = scan.seen /\ scan'.texts = scan.texts
            /\ HalfOpened(scan, log, opened) /\ scan.step = "direct" /\ log' = log
    BY <1>5, Opening
  <2>2. ASSUME NEW j \in scan'.todo, Opens(log[j]) PROVE log[j].nullifier \notin opened'
    <3>1. j \in scan.todo /\ j # i /\ i <= j
      BY <2>1 DEF Reading
    <3>2. j \in 1..scan.seen /\ scan.seen <= Len(log) /\ scan.seen \in Nat
      BY <1>s, <2>1, <3>1 DEF HalfOpened, ScanRecord
    <3>3. i \in DOMAIN log /\ j \in DOMAIN log /\ i < j
      BY <1>s, <2>1, <3>1, <3>2
    <3>4. log[j].nullifier # log[i].nullifier
      BY <3>1, <3>3 DEF ReadingInv, LogInv, NullifierOnce
    <3>5. log[j].nullifier \notin opened
      BY <2>1, <2>2, <3>3, InTurn DEF ReadingInv
    <3> QED
      BY <2>1, <3>4, <3>5
  <2>3. ASSUME NEW j \in 1..scan'.seen, j \notin scan'.todo, Opens(log[j])
        PROVE  log[j].nullifier \in opened'
    BY <2>1, <2>3 DEF HalfOpened
  <2>4. HalfOpened(scan', log', opened')
    BY <2>1, <2>2, <2>3 DEF HalfOpened
  <2> QED
    BY <2>1, <2>4 DEF ScanInv, ReadingInv
<1>6. CASE PassDirect
  <2>1. PICK i \in scan.todo :
            Reading(i) /\ ~Opens(log[i]) /\ scan' = [scan EXCEPT !.todo = @ \ {i}]
    BY <1>6 DEF PassDirect
  <2>2. scan.step = "direct" /\ HalfOpened(scan, log, opened) /\ log' = log /\ opened' = opened
    BY <1>6 DEF PassDirect, ScanInv, ReadingInv, hubVars
  <2>3. /\ scan' \in ScanRecord /\ scan'.todo = scan.todo \ {i} /\ scan'.direct = scan.direct
        /\ scan'.step = scan.step /\ scan'.seen = scan.seen /\ scan'.texts = scan.texts
    BY <1>s, <2>1, Passed
  <2>4. HalfOpened(scan', log', opened')
    BY <2>1, <2>2, <2>3 DEF HalfOpened
  <2> QED
    BY <2>2, <2>3, <2>4 DEF ScanInv, ReadingInv
<1>7. CASE ScanGroups
  <2>1. Query("groups", "group") /\ scan.step = "direct" /\ log' = log
    BY <1>7 DEF ScanGroups, hubVars
  <2>2. scan.texts = <<>>
    BY <2>1 DEF ScanInv, ReadingInv
  <2>3. /\ scan' \in ScanRecord
        /\ scan' = [step |-> "groups", todo |-> {i \in 1..Len(log) : log[i].kind = "group"},
                    seen |-> Len(log), direct |-> scan.direct, texts |-> scan.texts]
    BY <1>s, <2>1, Queried DEF ReadingInv
  <2>4. HalfRead(scan', log)
    BY <1>s, <2>2, <2>3 DEF HalfRead, Readable
  <2> QED
    BY <2>1, <2>3, <2>4 DEF ScanInv
<1>8. CASE ScanEvent
  <2>1. PICK i \in scan.todo :
            /\ Reading(i)
            /\ ~Undecryptable(log[i])
            /\ scan' = [scan EXCEPT !.todo = @ \ {i},
                            !.texts = IF RecoversAuthor(log[i]) THEN Append(@, i) ELSE @]
    BY <1>8 DEF ScanEvent
  <2>2. /\ HalfRead(scan, log) /\ (\A j \in scan.todo : i <= j) /\ log' = log
        /\ scan.step = "groups"
    BY <1>8, <2>1 DEF ScanInv, Reading, ScanEvent, hubVars, ReadingInv
  <2>3. scan'.step = scan.step
    BY <1>s, <2>1 DEF ScanRecord
  <2>5. log[i].payload # "garbage"
    BY <2>1 DEF Undecryptable
  <2>6. scan' \in ScanRecord /\ HalfRead(scan', log)
    BY <1>s, <2>1, <2>2, <2>5, HalfReadOn
  <2> QED
    BY <2>2, <2>3, <2>6 DEF ScanInv
<1> QED
  BY <1>2, <1>3, <1>4, <1>5, <1>6, <1>7, <1>8, Steps DEF DirectThrows, GroupThrows, CallFails,
     Throws, ScanReturns, Reload, readerVars

\* An event that ends scans goes on doing so: it stays in the log, and no group
\* returns to the key of an earlier epoch.
LEMMA LosesStays ==
    ASSUME LogInv, ProofsInv, EventsInv, LosesDirect, [Next]_vars
    PROVE  LosesDirect'
<1>1. Grows
  BY LogGrows
<1>2. failed => failed'
  BY Steps DEF ScanDirect, DirectThrows, OpenDirect, PassDirect, ScanGroups, GroupThrows,
     ScanEvent, CallFails, ScanReturns, Reload, readerVars
<1>3. ASSUME NEW i \in DOMAIN log, EndsScans(log[i]) PROVE LosesDirect'
  <2>1. i \in 1..Len(log) /\ i \in DOMAIN log' /\ log'[i] = log[i]
    BY <1>1 DEF Grows
  <2>2. CASE ThrowsAlways(log[i])
    BY <2>1, <2>2 DEF LosesDirect, EndsScans
  <2>3. CASE log[i].kind = "group" /\ Undecryptable(log[i])
    <3>1. GroupEvent(log[i], epoch)
      BY <2>3, DirectParts DEF EventsInv, EventOK
    <3>2. log[i].group \in Group /\ log[i].key \in 0..epoch[log[i].group]
      BY <3>1 DEF GroupEvent
    <3>3. /\ epoch[log[i].group] \in Nat /\ epoch'[log[i].group] \in Nat
          /\ epoch[log[i].group] <= epoch'[log[i].group]
      BY <3>2, EpochStep
    <3>4. log[i].key # epoch[log[i].group] => log[i].key # epoch'[log[i].group]
      BY <3>2, <3>3
    <3>5. Undecryptable(log[i])'
      BY <2>1, <2>3, <3>4 DEF Undecryptable
    <3> QED
      BY <2>1, <2>3, <3>5 DEF LosesDirect, EndsScans
  <2> QED
    BY <1>3, <2>2, <2>3 DEF EndsScans
<1> QED
  BY <1>2, <1>3 DEF LosesDirect

LEMMA OpenedStep ==
    ASSUME ReadingInv, OpenedInv, [Next]_vars
    PROVE  OpenedInv'
<1>1. LosesDirect => OpenedInv'
  BY LosesStays DEF OpenedInv, ReadingInv
<1> SUFFICES ASSUME opened \subseteq shown \union scan.direct PROVE OpenedInv'
  BY <1>1 DEF OpenedInv
<1>s. scan \in ScanRecord /\ Len(log) \in Nat /\ DOMAIN log = 1..Len(log)
  BY Domains DEF ScanInv, ReadingInv
<1>2. CASE UNCHANGED readerVars
  BY <1>2 DEF OpenedInv, readerVars
<1>3. CASE ScanDirect
  <2>1. scan'.direct = scan.direct /\ opened' = opened /\ shown' = shown
    BY <1>s, <1>3, Queried DEF ScanDirect, ReadingInv
  <2> QED
    BY <2>1 DEF OpenedInv
<1>4. CASE DirectThrows
  <2>1. PICK i \in scan.todo :
            /\ Reading(i)
            /\ ThrowsAlways(log[i]) \/ (Opens(log[i]) /\ log[i].nullifier \in opened)
    BY <1>4 DEF DirectThrows
  <2>2. HalfOpened(scan, log, opened)
    BY <1>4 DEF DirectThrows, ReadingInv, ScanInv
  <2>3. i \in DOMAIN log
    BY <1>s, <2>2 DEF HalfOpened, ScanRecord
  <2>4. CASE ThrowsAlways(log[i])
    BY <1>1, <2>3, <2>4 DEF LosesDirect, EndsScans
  <2>5. CASE Opens(log[i]) /\ log[i].nullifier \in opened
    <3>1. scan.direct = {}
      BY <2>2, <2>5 DEF HalfOpened
    <3>2. opened' = opened /\ shown' = shown
      BY <1>4 DEF DirectThrows, Throws
    <3> QED
      BY <3>1, <3>2 DEF OpenedInv
  <2> QED
    BY <2>1, <2>4, <2>5
<1>5. CASE OpenDirect
  <2>1. \E x : opened' = opened \union {x} /\ scan'.direct = scan.direct \union {x} /\ shown' = shown
    BY <1>5, Opening
  <2> QED
    BY <2>1 DEF OpenedInv
<1>6. CASE PassDirect
  <2>1. scan'.direct = scan.direct /\ opened' = opened /\ shown' = shown
    BY <1>s, <1>6, Passed DEF PassDirect
  <2> QED
    BY <2>1 DEF OpenedInv
<1>7. CASE ScanGroups
  <2>1. scan'.direct = scan.direct /\ opened' = opened /\ shown' = shown
    BY <1>s, <1>7, Queried DEF ScanGroups, ReadingInv
  <2> QED
    BY <2>1 DEF OpenedInv
<1>8. CASE GroupThrows
  <2>1. PICK i \in scan.todo : Reading(i) /\ Undecryptable(log[i])
    BY <1>8 DEF GroupThrows
  <2>2. HalfRead(scan, log)
    BY <1>8 DEF GroupThrows, ReadingInv, ScanInv
  <2>3. i \in 1..scan.seen /\ scan.seen \in Nat /\ scan.seen <= Len(log) /\ log[i].kind = "group"
    BY <1>s, <2>2 DEF HalfRead, ScanRecord
  <2>4. i \in DOMAIN log
    BY <1>s, <2>3
  <2> QED
    BY <1>1, <2>1, <2>3, <2>4 DEF LosesDirect, EndsScans
<1>9. CASE ScanEvent
  <2>1. scan'.direct = scan.direct /\ opened' = opened /\ shown' = shown
    BY <1>s, <1>9 DEF ScanEvent, ScanRecord
  <2> QED
    BY <2>1 DEF OpenedInv
<1>10. CASE CallFails
  BY <1>10 DEF CallFails, OpenedInv, LosesDirect
<1>11. CASE ScanReturns
  BY <1>11 DEF ScanReturns, OpenedInv
<1>12. CASE Reload
  BY <1>12 DEF Reload, OpenedInv
<1> QED
  BY <1>2, <1>3, <1>4, <1>5, <1>6, <1>7, <1>8, <1>9, <1>10, <1>11, <1>12, Steps

ReaderInv == ReadingInv /\ OpenedInv

LEMMA ReaderAlways == Spec => []ReaderInv
<1>1. Init => ReaderInv
  <2> SUFFICES ASSUME Init PROVE ReaderInv
    OBVIOUS
  <2>1. LogInv /\ ProofsInv /\ EventsInv
    BY DEF Init, HubInit, LogInv, NullifierOnce, ProofsInv, EventsInv
  <2>2. ScanInv /\ OpenedInv
    BY IdleScan, IdleText DEF Init, ScanInv, OpenedInv
  <2>3. PrefixInv
    <3>1. log = <<>> /\ opened = {}
      BY DEF Init, HubInit
    <3>2. 0 \in 0..Len(log) /\ opened = OpenedBy(log, 0)
      BY <3>1 DEF OpenedBy
    <3> QED
      BY <3>2 DEF PrefixInv
  <2> QED
    BY <2>1, <2>2, <2>3 DEF ReaderInv, ReadingInv
<1>2. ReadingInv /\ [Next]_vars => ReadingInv'
  BY LogStep, ProofsStep, EventsStep, PrefixStep, ScanStep DEF ReadingInv
<1>3. ReaderInv /\ [Next]_vars => ReaderInv'
  BY <1>2, OpenedStep DEF ReaderInv
<1> QED
  BY <1>1, <1>3, PTL DEF Spec

\* A scan that returns has every readable group message of the log it queried,
\* in order, for any logs, keys and rotations in the meantime.
THEOREM ScanCompleteHolds == Spec => []ScanIsComplete
<1>1. ASSUME ReaderInv PROVE ScanIsComplete
  <2> SUFFICES ASSUME scan.step = "groups", scan.todo = {}
               PROVE  /\ Range(scan.texts) = {i \in 1..scan.seen : Readable(log[i])}
                      /\ Increasing(scan.texts)
    BY DEF ScanIsComplete
  <2>1. HalfRead(scan, log)
    BY <1>1 DEF ReaderInv, ReadingInv, ScanInv
  <2> QED
    BY <2>1 DEF HalfRead, Range, Increasing
<1> QED
  BY <1>1, ReaderAlways, PTL

\* A direct message is opened and not shown only because of an event of the log
\* that ends scans, or of a call that failed, for any posts, rotations and
\* reloads: that keys open once loses nothing, since messages open in the order
\* of the log and a scan that meets a spent key has opened nothing yet.
THEOREM LostDirectHolds == Spec => []LostDirectExplained
<1>1. ReaderInv => LostDirectExplained
  BY DEF ReaderInv, ReadingInv, ScanInv, OpenedInv, LosesDirect, EndsScans, LostDirectExplained
<1> QED
  BY <1>1, ReaderAlways, PTL

\* The reader's filter passes over no message to it that came with a point, for
\* any order of the stealth addresses' group, keys and hash function.
THEOREM RecognisesHolds == Spec => []ReaderRecognises
<1>1. ASSUME ReaderInv PROVE ReaderRecognises
  <2> SUFFICES ASSUME NEW i \in DOMAIN log, log[i].kind = "direct", log[i].to = reader,
                      log[i].ephemeralPubKey # Invalid
               PROVE  ForReader(log[i])
    BY DEF ReaderRecognises
  <2>1. log[i] \in DirectMessages
    BY <1>1 DEF ReaderInv, ReadingInv, EventsInv, EventOK, GroupEvent
  <2>2. PICK e \in Ephemeral, x \in DirectNullifier :
            \E payload : Derived(reader, e) # Invalid /\ log[i] = DirectMessage(reader, e, x, payload)
    <3>1. PICK r \in Recipient, e \in Ephemeral, x \in DirectNullifier :
              \E payload : /\ Derived(r, e) # Invalid
                           /\ \/ log[i] = DirectMessage(r, e, x, payload)
                              \/ log[i] = WithoutPoint(DirectMessage(r, e, x, payload))
      BY <2>1, DirectFacts
    <3>2. PICK payload : /\ Derived(r, e) # Invalid
                         /\ \/ log[i] = DirectMessage(r, e, x, payload)
                            \/ log[i] = WithoutPoint(DirectMessage(r, e, x, payload))
      BY <3>1
    <3>3. log[i] = DirectMessage(r, e, x, payload)
      <4>1. WithoutPoint(DirectMessage(r, e, x, payload)).ephemeralPubKey = Invalid
        BY DEF WithoutPoint, DirectMessage
      <4> QED
        BY <3>2, <4>1
    <3>4. r = reader
      BY <3>3 DEF DirectMessage
    <3> QED
      BY <3>2, <3>3, <3>4
  <2>3. e \in Nat /\ viewingKey[reader] \in Nat
    BY GroupMessagesAssumption, StealthAddressAssumption DEF PrivateKey
  <2>4. viewingKey[reader] * e = e * viewingKey[reader]
    BY <2>3
  <2>5. deriveStealthFromEphemeral(e, viewingKey[reader], spendingKey[reader]) = Derived(reader, e)
    BY <2>4 DEF deriveStealthFromEphemeral, Derived, deriveStealthAddress, getSharedSecret
  <2>6. Derived(reader, e) = [stealthAddress |-> Derived(reader, e).stealthAddress,
                              viewTag |-> Derived(reader, e).viewTag]
    BY <2>2 DEF Derived, deriveStealthAddress, derive
  <2>7. Derivation(log[i]) = Derived(reader, e)
    BY <2>2, <2>5 DEF Derivation, DirectMessage
  <2> QED
    BY <2>2, <2>6, <2>7 DEF ForReader, DirectMessage
<1> QED
  BY <1>1, ReaderAlways, PTL

-----------------------------------------------------------------------------
(* The index by view tag                                                   *)

LEMMA LeastNumber ==
    ASSUME NEW S \in SUBSET Nat, S # {}
    PROVE  \E x \in S : \A y \in S : x <= y
<1> DEFINE R == {pair \in Nat \X Nat : pair[1] < pair[2]}
<1>1. IsWellFoundedOn(R, Nat)
  BY NatLessThanWellFounded DEF OpToRel
<1>2. \A x, y \in Nat : <<y, x>> \in R <=> y < x
  OBVIOUS
<1> HIDE DEF R
<1>3. PICK x \in S : \A y \in S : ~(<<y, x>> \in R)
  BY <1>1, WFMin
<1>4. ASSUME NEW y \in S PROVE x <= y
  <2>1. x \in Nat /\ y \in Nat /\ ~(y < x)
    BY <1>2, <1>3
  <2> QED
    BY <2>1
<1> QED
  BY <1>4

\* A finite set of numbers has an increasing enumeration.
Enumerates(s, S) == s \in [1..Cardinality(S) -> S] /\ Increasing(s)

LEMMA OneMore ==
    ASSUME NEW S \in SUBSET Nat, IsFiniteSet(S), NEW m \in S, \A y \in S : m <= y,
           NEW u, Enumerates(u, S \ {m})
    PROVE  \E s : Enumerates(s, S)
<1> DEFINE k == Cardinality(S)
           s == [i \in 1..k |-> IF i = 1 THEN m ELSE u[i - 1]]
<1>1. k \in Nat /\ k > 0 /\ Cardinality(S \ {m}) = k - 1
  <2>1. k \in Nat
    BY FS_CardinalityType
  <2>2. k # 0
    <3>1. S # {}
      OBVIOUS
    <3> QED
      BY <3>1, FS_EmptySet
  <2>3. Cardinality(S \ {m}) = k - 1
    BY FS_RemoveElement
  <2> QED
    BY <2>1, <2>2, <2>3
<1> HIDE DEF k
<1>2. /\ u \in [1..(k - 1) -> S \ {m}]
      /\ \A i, j \in 1..(k - 1) : i < j => u[i] < u[j]
  BY <1>1 DEF Enumerates, Increasing
<1>3. ASSUME NEW i \in 1..k, i # 1 PROVE i - 1 \in 1..(k - 1) /\ s[i] = u[i - 1] /\ u[i - 1] \in S /\ m < s[i]
  <2>1. i - 1 \in 1..(k - 1)
    BY <1>1, <1>3
  <2>2. s[i] = u[i - 1]
    BY <1>3
  <2>3. u[i - 1] \in S /\ u[i - 1] # m /\ m <= u[i - 1] /\ m \in Nat /\ u[i - 1] \in Nat
    BY <1>2, <2>1
  <2> HIDE DEF s
  <2> QED
    BY <2>1, <2>2, <2>3
<1>4. 1 \in 1..k /\ s[1] = m
  BY <1>1
<1>5. s \in [1..k -> S]
  BY <1>3
<1>6. ASSUME NEW i \in 1..k, NEW j \in 1..k, i < j PROVE s[i] < s[j]
  <2>1. j # 1
    BY <1>1, <1>6
  <2>2. CASE i = 1
    BY <1>3, <1>4, <2>1, <2>2
  <2>3. CASE i # 1
    <3>1. i - 1 \in 1..(k - 1) /\ j - 1 \in 1..(k - 1) /\ s[i] = u[i - 1] /\ s[j] = u[j - 1]
      BY <1>3, <2>1, <2>3
    <3>2. i - 1 < j - 1
      BY <1>6
    <3> HIDE DEF s
    <3> QED
      BY <1>2, <3>1, <3>2
  <2> QED
    BY <2>2, <2>3
<1>7. DOMAIN s = 1..k
  OBVIOUS
<1> HIDE DEF s
<1>8. Increasing(s)
  BY <1>6, <1>7 DEF Increasing
<1> QED
  BY <1>5, <1>8 DEF Enumerates, k

LEMMA Enumerated ==
    ASSUME NEW S \in SUBSET Nat, IsFiniteSet(S)
    PROVE  Enumerates(InOrder(S), S)
<1> DEFINE Bad == {k \in Nat : \E X \in SUBSET Nat : /\ IsFiniteSet(X) /\ Cardinality(X) = k
                                                     /\ ~\E s : Enumerates(s, X)}
<1>1. ASSUME Bad # {} PROVE FALSE
  <2>1. PICK k \in Bad : \A l \in Bad : k <= l
    BY <1>1, LeastNumber
  <2>2. PICK X \in SUBSET Nat : /\ IsFiniteSet(X) /\ Cardinality(X) = k
                                /\ ~\E s : Enumerates(s, X)
    OBVIOUS
  <2>3. CASE X = {}
    <3>1. Cardinality(X) = 0
      BY <2>3, FS_EmptySet
    <3>2. 1..0 = {}
      OBVIOUS
    <3>3. <<>> \in [1..0 -> X] /\ DOMAIN <<>> = {}
      OBVIOUS
    <3>4. Enumerates(<<>>, X)
      BY <3>1, <3>3 DEF Enumerates, Increasing
    <3> QED
      BY <2>2, <3>4
  <2>4. CASE X # {}
    <3>1. PICK m \in X : \A y \in X : m <= y
      BY <2>4, LeastNumber
    <3>2. IsFiniteSet(X \ {m}) /\ Cardinality(X \ {m}) = k - 1
      BY <2>2, FS_RemoveElement
    <3>3. Cardinality(X \ {m}) \in Nat /\ k \in Nat
      BY <3>2, FS_CardinalityType
    <3>4. k - 1 \notin Bad
      BY <2>1, <3>2, <3>3
    <3>5. \E u : Enumerates(u, X \ {m})
      BY <3>2, <3>3, <3>4
    <3>6. PICK u : Enumerates(u, X \ {m})
      BY <3>5
    <3> QED
      BY <2>2, <3>1, <3>6, OneMore
  <2> QED
    BY <2>3, <2>4
<1>2. Cardinality(S) \in Nat
  BY FS_CardinalityType
<1>3. \E s : Enumerates(s, S)
  BY <1>1, <1>2
<1>4. \E s \in [1..Cardinality(S) -> S] : Increasing(s)
  BY <1>3 DEF Enumerates
<1> QED
  BY <1>4 DEF InOrder, Enumerates

\* ... in which every element comes.
LEMMA EnumeratesAll ==
    ASSUME NEW S \in SUBSET Nat, IsFiniteSet(S), NEW u, Enumerates(u, S)
    PROVE  Range(u) = S
<1> DEFINE k == Cardinality(S)
           D == 1..k
<1>1. k \in Nat
  BY FS_CardinalityType
<1>2. u \in [D -> S] /\ \A i, j \in D : i < j => u[i] < u[j]
  BY DEF Enumerates, Increasing
<1>3. \A i, j \in D : u[i] = u[j] => i = j
  <2> SUFFICES ASSUME NEW i \in D, NEW j \in D, u[i] = u[j], i # j PROVE FALSE
    OBVIOUS
  <2>1. i < j \/ j < i
    BY <1>1
  <2>2. u[i] \in Nat
    BY <1>2
  <2> HIDE DEF D
  <2> QED
    BY <1>2, <2>1, <2>2
<1>4. u \in Injection(D, S)
  BY <1>2, <1>3 DEF Injection, IsInjective
<1>5. IsFiniteSet(D) /\ Cardinality(D) = k
  BY <1>1, FS_Interval
<1>6. u \in Surjection(D, S)
  BY <1>4, <1>5, FS_Injection
<1> QED
  BY <1>2, <1>6 DEF Surjection, Range

\* A list of places, with later ones added to it.
LEMMA JoinedIndex ==
    ASSUME NEW a \in Seq(Nat), Increasing(a), NEW P \in SUBSET Nat, IsFiniteSet(P),
           \A i \in DOMAIN a : \A p \in P : a[i] < p
    PROVE  /\ a \o InOrder(P) \in Seq(Nat)
           /\ Len(a \o InOrder(P)) = Len(a) + Cardinality(P)
           /\ Range(a \o InOrder(P)) = Range(a) \union P
           /\ Increasing(a \o InOrder(P))
<1> DEFINE u == InOrder(P)
           b == a \o u
           h == Len(a)
           k == Cardinality(P)
<1>1. k \in Nat /\ h \in Nat /\ DOMAIN a = 1..h
  BY FS_CardinalityType
<1>2. Enumerates(u, P)
  BY Enumerated
<1>3. Range(u) = P
  BY <1>2, EnumeratesAll
<1> HIDE DEF u
<1>4. u \in [1..k -> P] /\ \A i, j \in 1..k : i < j => u[i] < u[j]
  BY <1>2 DEF Enumerates, Increasing
<1> HIDE DEF k
<1>5. u \in Seq(Nat) /\ Len(u) = k
  <2>1. u \in [1..k -> Nat]
    BY <1>4
  <2> QED
    BY <1>1, <2>1
<1>6. /\ b \in Seq(Nat) /\ Len(b) = h + k
      /\ \A i \in 1..(h + k) : b[i] = IF i <= h THEN a[i] ELSE u[i - h]
  BY <1>5, ConcatProperties
<1> HIDE DEF b, h
<1>7. DOMAIN b = 1..(h + k) /\ DOMAIN u = 1..k
  BY <1>1, <1>4, <1>6
<1>8. \A i \in 1..h : i \in 1..(h + k) /\ b[i] = a[i]
  <2>1. \A i \in 1..h : i \in 1..(h + k) /\ i <= h
    BY <1>1
  <2> QED
    BY <1>6, <2>1
<1>9. \A i \in 1..k : h + i \in 1..(h + k) /\ b[h + i] = u[i]
  <2>1. \A i \in 1..k : h + i \in 1..(h + k) /\ ~(h + i <= h) /\ (h + i) - h = i
    BY <1>1
  <2> QED
    BY <1>6, <2>1
<1>10. \A i \in 1..(h + k) : i \in 1..h \/ (i - h \in 1..k /\ b[i] = u[i - h])
  <2>1. \A i \in 1..(h + k) : i \in 1..h \/ (~(i <= h) /\ i - h \in 1..k)
    BY <1>1
  <2> QED
    BY <1>6, <2>1
<1>11. Range(b) = Range(a) \union P
  <2>1. ASSUME NEW i \in 1..(h + k) PROVE b[i] \in Range(a) \union P
    BY <1>1, <1>3, <1>7, <1>8, <1>10 DEF Range
  <2>2. Range(a) \subseteq Range(b)
    BY <1>1, <1>7, <1>8 DEF Range
  <2>3. P \subseteq Range(b)
    BY <1>3, <1>7, <1>9 DEF Range
  <2> QED
    BY <1>7, <2>1, <2>2, <2>3 DEF Range
<1>12. ASSUME NEW i \in 1..(h + k), NEW j \in 1..(h + k), i < j PROVE b[i] < b[j]
  <2>1. CASE i \in 1..h /\ j \in 1..h
    BY <1>1, <1>8, <1>12, <2>1 DEF Increasing
  <2>2. CASE i \in 1..h /\ j \notin 1..h
    <3>1. j - h \in 1..k /\ b[j] = u[j - h] /\ b[i] = a[i]
      BY <1>8, <1>10, <2>2
    <3>2. u[j - h] \in P
      BY <1>4, <3>1
    <3> QED
      BY <1>1, <2>2, <3>1, <3>2
  <2>3. CASE i \notin 1..h /\ j \notin 1..h
    <3>1. j - h \in 1..k /\ b[j] = u[j - h] /\ i - h \in 1..k /\ b[i] = u[i - h]
      BY <1>10, <2>3
    <3>2. i - h < j - h
      BY <1>1, <1>12
    <3> QED
      BY <1>4, <3>1, <3>2
  <2>4. ~(i \notin 1..h /\ j \in 1..h)
    BY <1>1, <1>12
  <2> QED
    BY <2>1, <2>2, <2>3, <2>4
<1> QED
  BY <1>6, <1>7, <1>11, <1>12 DEF Increasing, b, u, h, k

\* The places of a batch are those of its messages in it, moved to the log's end.
LEMMA PlacesOfBatch ==
    ASSUME NEW len \in Nat, NEW k \in Nat, NEW T \in SUBSET (1..k),
           NEW P, P = {len + i - 1 : i \in T}
    PROVE  /\ P \in SUBSET Nat /\ IsFiniteSet(T) /\ IsFiniteSet(P)
           /\ Cardinality(P) = Cardinality(T)
           /\ \A p \in P : len <= p
<1>1. IsFiniteSet(T)
  <2>1. IsFiniteSet(1..k)
    BY FS_Interval
  <2> QED
    BY <2>1, FS_Subset
<1> DEFINE f == [i \in T |-> len + i - 1]
<1>2. f \in [T -> P] /\ \A p \in P : \E i \in T : f[i] = p
  OBVIOUS
<1>3. \A i, j \in T : f[i] = f[j] => i = j
  OBVIOUS
<1> HIDE DEF f
<1>4. f \in Bijection(T, P)
  BY <1>2, <1>3 DEF Bijection, Injection, Surjection, IsInjective
<1>5. IsFiniteSet(P) /\ Cardinality(P) = Cardinality(T)
  BY <1>1, <1>4, FS_Bijection DEF ExistsBijection
<1>6. ASSUME NEW i \in T PROVE len + i - 1 \in Nat /\ len <= len + i - 1
  OBVIOUS
<1> QED
  BY <1>1, <1>5, <1>6

\* A set of numbers has a greatest below a bound.
LEMMA GreatestNumber ==
    ASSUME NEW k \in Nat, NEW T \in SUBSET (1..k), T # {}
    PROVE  \E x \in T : \A y \in T : y <= x
<1> DEFINE R == {k - i : i \in T}
<1>1. R \in SUBSET Nat /\ R # {}
  <2>1. \A i \in T : k - i \in Nat
    OBVIOUS
  <2> QED
    BY <2>1
<1>2. PICK r \in R : \A s \in R : r <= s
  BY <1>1, LeastNumber
<1>3. PICK x \in T : r = k - x
  OBVIOUS
<1>4. ASSUME NEW y \in T PROVE y <= x
  <2>1. r <= k - y
    BY <1>2
  <2>2. x \in Int /\ y \in Int
    OBVIOUS
  <2> HIDE DEF R
  <2> QED
    BY <1>3, <2>1, <2>2
<1> QED
  BY <1>4

\* Every message of a batch found room in its tag's list, the last one too.
LEMMA RoomForAll ==
    ASSUME NEW k \in Nat, NEW T \in SUBSET (1..k), NEW c \in Nat, NEW max \in Nat, c <= max,
           \A i \in T : c + Cardinality({j \in 1..i - 1 : j \in T}) < max
    PROVE  c + Cardinality(T) <= max
<1>1. CASE T = {}
  BY <1>1, FS_EmptySet
<1>2. CASE T # {}
  <2>1. PICK x \in T : \A y \in T : y <= x
    BY <1>2, GreatestNumber
  <2> DEFINE B == {j \in 1..x - 1 : j \in T}
  <2>2. x \in 1..k /\ \A j \in 1..x - 1 : j \in 1..k
    OBVIOUS
  <2>3. T = B \union {x}
    <3>1. ASSUME NEW y \in T, y # x PROVE y \in 1..x - 1
      BY <2>1, <2>2, <3>1
    <3> QED
      BY <2>2, <3>1
  <2>4. x - 1 \in Nat
    BY <2>2
  <2>5. IsFiniteSet(B)
    <3>1. IsFiniteSet(1..x - 1)
      BY <2>4, FS_Interval
    <3> QED
      BY <3>1, FS_Subset
  <2>6. x \notin B
    BY <2>2
  <2>7. Cardinality(T) = Cardinality(B) + 1 /\ Cardinality(B) \in Nat
    BY <2>3, <2>5, <2>6, FS_AddElement, FS_CardinalityType
  <2>8. c + Cardinality(B) < max
    OBVIOUS
  <2> HIDE DEF B
  <2> QED
    BY <2>7, <2>8
<1> QED
  BY <1>1, <1>2

IndexOK(t) ==
    /\ messagesByViewTag[t] \in Seq(Nat)
    /\ viewTagArrayLength[t] = Len(messagesByViewTag[t])
    /\ viewTagArrayLength[t] <= MAX_MESSAGES_PER_VIEW_TAG
    /\ Range(messagesByViewTag[t]) = {i - 1 : i \in Tagged(log, t)}
    /\ Increasing(messagesByViewTag[t])

\* A tag's list has the place of every direct message with the tag, in order,
\* and its length is counted right.
IndexInv ==
    /\ totalMessages = Len(log)
    /\ \A t \in ViewTag : IndexOK(t)

LEMMA DirectPosts ==
    ASSUME PostDirectMessage \/ PostBatch
    PROVE  \E msgs : msgs \in Seq(DirectMessages) /\ PostDirect(msgs)
<1>1. CASE PostDirectMessage
  BY <1>1 DEF PostDirectMessage, postDirectMessage
<1>2. CASE PostBatch
  <2>1. PICK m1 \in DirectMessages, m2 \in DirectMessages : PostDirect(<<m1, m2>>)
    BY <1>2 DEF PostBatch, postDirectMessageBatch
  <2>2. <<m1, m2>> \in Seq(DirectMessages)
    OBVIOUS
  <2> QED
    BY <2>1, <2>2
<1> QED
  BY <1>1, <1>2

\* The log after a batch.
LEMMA LogAfter ==
    ASSUME LogInv, NEW msgs \in Seq(DirectMessages), PostDirect(msgs)
    PROVE  /\ Len(log) \in Nat /\ Len(msgs) \in Nat /\ Len(log') = Len(log) + Len(msgs)
           /\ DOMAIN log = 1..Len(log) /\ DOMAIN msgs = 1..Len(msgs)
           /\ DOMAIN log' = 1..(Len(log) + Len(msgs))
           /\ \A i \in 1..Len(log) : log'[i] = log[i]
           /\ \A i \in 1..Len(msgs) : log'[Len(log) + i] = msgs[i]
<1> DEFINE X == Range(log) \union DirectMessages
<1>1. log \in Seq(X) /\ msgs \in Seq(X)
  BY SeqMonotonic DEF LogInv
<1>2. log' = log \o msgs
  BY DEF PostDirect
<1>3. /\ Len(log) \in Nat /\ Len(msgs) \in Nat /\ Len(log') = Len(log) + Len(msgs)
      /\ DOMAIN log = 1..Len(log) /\ DOMAIN msgs = 1..Len(msgs)
      /\ DOMAIN log' = 1..(Len(log) + Len(msgs))
      /\ \A i \in DOMAIN log' : log'[i] = IF i <= Len(log) THEN log[i] ELSE msgs[i - Len(log)]
  BY <1>1, <1>2, ConcatProperties
<1> HIDE DEF X
<1>4. ASSUME NEW i \in 1..Len(log) PROVE log'[i] = log[i]
  <2>1. i \in 1..(Len(log) + Len(msgs)) /\ i <= Len(log)
    BY <1>3
  <2> QED
    BY <1>3, <2>1
<1>5. ASSUME NEW i \in 1..Len(msgs) PROVE log'[Len(log) + i] = msgs[i]
  <2>1. /\ Len(log) + i \in 1..(Len(log) + Len(msgs)) /\ ~(Len(log) + i <= Len(log))
        /\ (Len(log) + i) - Len(log) = i
    BY <1>3
  <2> QED
    BY <1>3, <2>1
<1> QED
  BY <1>3, <1>4, <1>5

LEMMA TaggedAfter ==
    ASSUME LogInv, NEW msgs \in Seq(DirectMessages), PostDirect(msgs), NEW t
    PROVE  {i - 1 : i \in Tagged(log, t)'}
               = {i - 1 : i \in Tagged(log, t)} \union {Len(log) + i - 1 : i \in Tagged(msgs, t)}
<1> DEFINE l == Len(log)
           k == Len(msgs)
           Has(m) == m.kind = "direct" /\ m.viewTag = t
<1>1. /\ l \in Nat /\ k \in Nat
      /\ DOMAIN log = 1..l /\ DOMAIN msgs = 1..k /\ DOMAIN log' = 1..(l + k)
      /\ \A i \in 1..l : log'[i] = log[i]
      /\ \A i \in 1..k : log'[l + i] = msgs[i]
  BY LogAfter
<1>2. /\ Tagged(log, t) = {i \in 1..l : Has(log[i])}
      /\ Tagged(log, t)' = {i \in 1..(l + k) : Has(log'[i])}
      /\ Tagged(msgs, t) = {i \in 1..k : Has(msgs[i])}
  BY <1>1 DEF Tagged
<1> HIDE DEF l, k, Has
<1>3. ASSUME NEW i \in Tagged(log, t)'
      PROVE  i \in Tagged(log, t) \/ (i - l \in Tagged(msgs, t) /\ l + (i - l) = i)
  <2>1. i \in 1..(l + k) /\ Has(log'[i])
    BY <1>2
  <2>2. CASE i <= l
    <3>1. i \in 1..l
      BY <1>1, <2>1, <2>2
    <3> QED
      BY <1>1, <1>2, <2>1, <3>1
  <2>3. CASE ~(i <= l)
    <3>1. i - l \in 1..k /\ l + (i - l) = i
      BY <1>1, <2>1, <2>3
    <3>2. log'[l + (i - l)] = msgs[i - l]
      BY <1>1, <3>1
    <3> QED
      BY <1>2, <2>1, <3>1, <3>2
  <2> QED
    BY <2>2, <2>3
<1>4. ASSUME NEW i \in Tagged(log, t) PROVE i \in Tagged(log, t)'
  <2>1. i \in 1..l /\ Has(log[i])
    BY <1>2
  <2>2. i \in 1..(l + k)
    BY <1>1, <2>1
  <2> QED
    BY <1>1, <1>2, <2>1, <2>2
<1>5. ASSUME NEW i \in Tagged(msgs, t) PROVE l + i \in Tagged(log, t)' /\ l + i - 1 = (l + i) - 1
  <2>1. i \in 1..k /\ Has(msgs[i])
    BY <1>2
  <2>2. l + i \in 1..(l + k)
    BY <1>1, <2>1
  <2> QED
    BY <1>1, <1>2, <2>1, <2>2
<1>6. {i - 1 : i \in Tagged(log, t)'}
          \subseteq {i - 1 : i \in Tagged(log, t)} \union {l + i - 1 : i \in Tagged(msgs, t)}
  <2> SUFFICES ASSUME NEW i \in Tagged(log, t)'
               PROVE  i - 1 \in {j - 1 : j \in Tagged(log, t)} \union {l + j - 1 : j \in Tagged(msgs, t)}
    OBVIOUS
  <2>1. CASE i \in Tagged(log, t)
    BY <2>1
  <2>2. CASE i - l \in Tagged(msgs, t) /\ l + (i - l) = i
    <3>1. i \in Int /\ l \in Int
      BY <1>1, <1>2
    <3>2. i - 1 = l + (i - l) - 1
      BY <3>1
    <3> QED
      BY <2>2, <3>2
  <2> QED
    BY <1>3, <2>1, <2>2
<1>7. {i - 1 : i \in Tagged(log, t)} \union {l + i - 1 : i \in Tagged(msgs, t)}
          \subseteq {i - 1 : i \in Tagged(log, t)'}
  BY <1>4, <1>5
<1> QED
  BY <1>6, <1>7 DEF l

LEMMA PostIndexes ==
    ASSUME LogInv, IndexInv, NEW msgs \in Seq(DirectMessages), PostDirect(msgs), NEW t \in ViewTag
    PROVE  IndexOK(t)'
<1> DEFINE T == Tagged(msgs, t)
           P == {totalMessages + i - 1 : i \in T}
           a == messagesByViewTag[t]
           len == Len(log)
           k == Len(msgs)
<1>1. /\ messagesByViewTag'[t] = a \o InOrder(P)
      /\ viewTagArrayLength'[t] = viewTagArrayLength[t] + Cardinality(T)
  BY DEF PostDirect
<1>2. /\ a \in Seq(Nat) /\ viewTagArrayLength[t] = Len(a)
      /\ viewTagArrayLength[t] <= MAX_MESSAGES_PER_VIEW_TAG
      /\ Range(a) = {i - 1 : i \in Tagged(log, t)}
      /\ Increasing(a) /\ totalMessages = len
  BY DEF IndexInv, IndexOK
<1>3. len \in Nat /\ k \in Nat /\ DOMAIN log = 1..len /\ DOMAIN msgs = 1..k
  BY LogAfter
<1>4. T \in SUBSET (1..k)
  BY <1>3 DEF Tagged
<1>5. \A i \in T :
          viewTagArrayLength[t] + Cardinality({j \in 1..i - 1 : j \in T}) < MAX_MESSAGES_PER_VIEW_TAG
  <2> SUFFICES ASSUME NEW i \in T
               PROVE  viewTagArrayLength[t] + Cardinality({j \in 1..i - 1 : j \in T})
                          < MAX_MESSAGES_PER_VIEW_TAG
    OBVIOUS
  <2>1. i \in 1..k /\ msgs[i].viewTag = t
    BY <1>3 DEF Tagged
  <2>2. viewTagArrayLength[t] + Cardinality({j \in 1..i - 1 : msgs[j].viewTag = t})
            < MAX_MESSAGES_PER_VIEW_TAG
    BY <1>3, <2>1 DEF PostDirect
  <2>3. \A j \in 1..i - 1 : j \in 1..k
    BY <1>3, <2>1
  <2>4. \A j \in 1..k : msgs[j].kind = "direct"
    BY <1>3, DirectParts
  <2>5. {j \in 1..i - 1 : j \in T} = {j \in 1..i - 1 : msgs[j].viewTag = t}
    BY <1>3, <2>3, <2>4 DEF Tagged
  <2> QED
    BY <2>2, <2>5
<1>6. /\ P \in SUBSET Nat /\ IsFiniteSet(P) /\ IsFiniteSet(T)
      /\ Cardinality(P) = Cardinality(T) /\ \A p \in P : len <= p
  <2>1. P = {len + i - 1 : i \in T}
    BY <1>2
  <2>2. len \in Nat /\ k \in Nat
    BY <1>3
  <2> HIDE DEF P, T, len, k
  <2> QED
    BY ONLY <1>4, <2>1, <2>2, PlacesOfBatch
<1>7. {i - 1 : i \in Tagged(log, t)'} = {i - 1 : i \in Tagged(log, t)} \union P
  <2>1. totalMessages = Len(log)
    BY <1>2
  <2>2. P = {Len(log) + i - 1 : i \in Tagged(msgs, t)}
    BY <2>1
  <2>3. {i - 1 : i \in Tagged(log, t)'}
            = {i - 1 : i \in Tagged(log, t)} \union {Len(log) + i - 1 : i \in Tagged(msgs, t)}
    BY TaggedAfter
  <2> HIDE DEF P
  <2> QED
    BY <2>2, <2>3
<1>8. \A i \in Tagged(log, t) : i - 1 \in Nat /\ i - 1 < len
  BY <1>3 DEF Tagged
<1> HIDE DEF P, T, a, len, k
<1>9. \A i \in DOMAIN a : \A p \in P : a[i] < p
  <2> SUFFICES ASSUME NEW i \in DOMAIN a, NEW p \in P PROVE a[i] < p
    OBVIOUS
  <2>1. a[i] \in {j - 1 : j \in Tagged(log, t)}
    BY <1>2 DEF Range
  <2>2. a[i] \in Nat /\ a[i] < len
    BY <1>8, <2>1
  <2>3. len <= p /\ p \in Nat
    BY <1>6
  <2> QED
    BY <1>3, <2>2, <2>3
<1>10. /\ a \o InOrder(P) \in Seq(Nat)
       /\ Len(a \o InOrder(P)) = Len(a) + Cardinality(P)
       /\ Range(a \o InOrder(P)) = Range(a) \union P
       /\ Increasing(a \o InOrder(P))
  BY <1>2, <1>6, <1>9, JoinedIndex
<1>11. viewTagArrayLength[t] + Cardinality(T) <= MAX_MESSAGES_PER_VIEW_TAG
  <2>1. viewTagArrayLength[t] \in Nat /\ MAX_MESSAGES_PER_VIEW_TAG \in Nat
    BY <1>2, HubAssumption
  <2> QED
    BY <1>2, <1>3, <1>4, <1>5, <2>1, RoomForAll
<1> QED
  BY <1>1, <1>2, <1>6, <1>7, <1>10, <1>11 DEF IndexOK

\* A tag whose list and whose direct messages stay.
LEMMA IndexStays ==
    ASSUME NEW t \in ViewTag, IndexOK(t), UNCHANGED tagVars, Tagged(log, t)' = Tagged(log, t)
    PROVE  IndexOK(t)'
<1>1. messagesByViewTag' = messagesByViewTag /\ viewTagArrayLength' = viewTagArrayLength
  BY DEF tagVars
<1>2. {i - 1 : i \in Tagged(log, t)'} = {i - 1 : i \in Tagged(log, t)}
  OBVIOUS
<1> QED
  BY <1>1, <1>2 DEF IndexOK, Range, Increasing

LEMMA IndexStep ==
    ASSUME LogInv, ProofsInv, IndexInv, [Next]_vars
    PROVE  IndexInv'
<1>1. CASE UNCHANGED hubVars
  <2>1. UNCHANGED tagVars /\ log' = log /\ totalMessages' = totalMessages
    BY <1>1 DEF hubVars
  <2>2. ASSUME NEW t \in ViewTag PROVE Tagged(log, t)' = Tagged(log, t)
    BY <2>1 DEF Tagged
  <2> QED
    BY <2>1, <2>2, IndexStays DEF IndexInv
<1>2. CASE PostDirectMessage \/ PostBatch
  <2>1. PICK msgs : msgs \in Seq(DirectMessages) /\ PostDirect(msgs)
    BY <1>2, DirectPosts
  <2>2. totalMessages' = Len(log')
    BY <2>1, LogAfter DEF IndexInv, PostDirect
  <2> QED
    BY <2>1, <2>2, PostIndexes DEF IndexInv
<1>3. ASSUME NEW m, NEW p, GroupEvent(m, epoch), postGroupMessage(m, p, p.root) PROVE IndexInv'
  <2>2. m.kind = "group"
    BY <1>3 DEF GroupEvent
  <2>3. /\ LogInv' /\ DOMAIN log' = DOMAIN log \union {Len(log) + 1}
        /\ \A i \in DOMAIN log : log'[i] = log[i]
        /\ log'[Len(log) + 1] = m
    BY <1>3, GroupKeepsLog
  <2>4. totalMessages' = totalMessages + 1 /\ UNCHANGED tagVars /\ log' = Append(log, m)
    BY <1>3 DEF postGroupMessage
  <2>5. Len(log') = Len(log) + 1
    <3> DEFINE X == Range(log) \union {m}
    <3>1. log \in Seq(X) /\ m \in X
      BY SeqMonotonic DEF LogInv
    <3> HIDE DEF X
    <3> QED
      BY <2>4, <3>1
  <2>6. ASSUME NEW t PROVE Tagged(log, t)' = Tagged(log, t)
    BY <2>2, <2>3 DEF Tagged
  <2> QED
    BY <2>4, <2>5, <2>6, IndexStays DEF IndexInv
<1> QED
  BY <1>1, <1>2, <1>3, HubSteps

\* The index of a tag holds the place of every direct message with the tag, in
\* the order of the log, and of nothing else, and its length is counted right:
\* for any batches, group messages in between, sends and tags.
THEOREM IndexHolds == Spec => []IndexInv
<1>1. Init => IndexInv
  <2>0. Init => totalMessages = Len(log)
    BY DEF Init, HubInit
  <2> SUFFICES ASSUME Init, NEW t \in ViewTag PROVE IndexOK(t)
    BY <2>0 DEF IndexInv
  <2>1. /\ totalMessages = 0 /\ log = <<>>
        /\ messagesByViewTag[t] = <<>> /\ viewTagArrayLength[t] = 0
    BY DEF Init, HubInit
  <2>2. Tagged(log, t) = {}
    BY <2>1 DEF Tagged
  <2>3. {i - 1 : i \in Tagged(log, t)} = {}
    BY <2>2
  <2> QED
    BY <2>1, <2>3, HubAssumption DEF IndexOK, Range, Increasing
<1>2. Init => LogInv /\ ProofsInv
  BY DEF Init, HubInit, LogInv, NullifierOnce, ProofsInv
<1>3. LogInv /\ ProofsInv /\ IndexInv /\ [Next]_vars => LogInv' /\ ProofsInv' /\ IndexInv'
  BY LogStep, ProofsStep, IndexStep
<1> QED
  BY <1>1, <1>2, <1>3, PTL DEF Spec

-----------------------------------------------------------------------------
(* Types                                                                   *)

LogNullifiers == {log[i].nullifier : i \in DOMAIN log}

HubTypes ==
    /\ usedNullifiers \subseteq LogNullifiers
    /\ commitmentTimestamp \subseteq DirectNullifier

CallTypes ==
    /\ vkInitialized \in BOOLEAN
    /\ rootValidationEnabled \in BOOLEAN
    /\ authorizedRootRegistrars \subseteq Account
    /\ leaves \in Seq(Member)
    /\ epoch \in [Group -> 0..bound.epochs]
    /\ sending # NoSend => sending.by \in Member
    /\ configured \in 0..bound.settings
    /\ bound \in Bounds

ReadTypes ==
    /\ opened \subseteq DirectNullifier
    /\ shown \subseteq Nullifiers
    /\ failed \in BOOLEAN

LEMMA HubTypesStep ==
    ASSUME LogInv, ProofsInv, EventsInv, HubTypes, [Next]_vars
    PROVE  HubTypes' /\ LogNullifiers \subseteq LogNullifiers'
<1>1. Grows
  BY LogGrows
<1>2. LogNullifiers \subseteq LogNullifiers'
  <2> SUFFICES ASSUME NEW i \in DOMAIN log PROVE log[i].nullifier \in LogNullifiers'
    BY DEF LogNullifiers
  <2>1. i \in 1..Len(log')
    BY <1>1 DEF Grows
  <2> QED
    BY <1>1, <2>1 DEF Grows, LogNullifiers
<1>3. CASE UNCHANGED hubVars
  BY <1>2, <1>3 DEF HubTypes, hubVars
<1>4. CASE PostDirectMessage \/ PostBatch
  <2>1. PICK msgs : msgs \in Seq(DirectMessages) /\ PostDirect(msgs)
    BY <1>4, DirectPosts
  <2>2. /\ DOMAIN msgs = 1..Len(msgs)
        /\ \A i \in 1..Len(msgs) : Len(log) + i \in DOMAIN log' /\ log'[Len(log) + i] = msgs[i]
    <3>1. /\ Len(log) \in Nat /\ Len(msgs) \in Nat /\ DOMAIN msgs = 1..Len(msgs)
          /\ DOMAIN log' = 1..(Len(log) + Len(msgs))
          /\ \A i \in 1..Len(msgs) : log'[Len(log) + i] = msgs[i]
      BY <2>1, LogAfter
    <3> QED
      BY <3>1
  <2>3. \A i \in DOMAIN msgs : msgs[i].nullifier \in LogNullifiers'
    BY <2>2 DEF LogNullifiers
  <2>4. \A i \in DOMAIN msgs : msgs[i].commitment \in DirectNullifier
    BY <2>1, <2>2, DirectParts
  <2> QED
    BY <1>2, <2>1, <2>3, <2>4 DEF HubTypes, PostDirect
<1>5. ASSUME NEW m, NEW p, postGroupMessage(m, p, p.root) PROVE HubTypes'
  <2>1. Len(log) + 1 \in DOMAIN log' /\ log'[Len(log) + 1] = m
    BY <1>5, GroupKeepsLog
  <2>2. m.nullifier \in LogNullifiers'
    BY <2>1 DEF LogNullifiers
  <2> QED
    BY <1>2, <1>5, <2>2 DEF HubTypes, postGroupMessage
<1> QED
  BY <1>2, <1>3, <1>4, <1>5, HubSteps

\* What the calls of Configure do to the settings.
LEMMA Configured ==
    ASSUME CallTypes, Configure
    PROVE  /\ vkInitialized' \in BOOLEAN /\ rootValidationEnabled' \in BOOLEAN
           /\ authorizedRootRegistrars' \subseteq Account
<1> USE DEF CallTypes
<1>1. PICK a \in Account :
          \/ setVerifyingKey(a)
          \/ \E b \in BOOLEAN : setRootValidationEnabled(a, b)
          \/ \E r \in Account, b \in BOOLEAN : setAuthorizedRootRegistrar(a, r, b)
          \/ \E g \in Group, b \in BOOLEAN : setValidRoot(a, g, getRoot(leaves), b)
          \/ \E gs \in SUBSET Group : registerRoots(a, gs \X {getRoot(leaves)})
  BY DEF Configure
<1>2. CASE setVerifyingKey(a)
  BY <1>2 DEF setVerifyingKey
<1>3. CASE \E b \in BOOLEAN : setRootValidationEnabled(a, b)
  BY <1>3 DEF setRootValidationEnabled
<1>4. CASE \E r \in Account, b \in BOOLEAN : setAuthorizedRootRegistrar(a, r, b)
  BY <1>4 DEF setAuthorizedRootRegistrar
<1>5. CASE \E g \in Group, b \in BOOLEAN : setValidRoot(a, g, getRoot(leaves), b)
  BY <1>5 DEF setValidRoot, settings
<1>6. CASE \E gs \in SUBSET Group : registerRoots(a, gs \X {getRoot(leaves)})
  BY <1>6 DEF registerRoots, settings
<1> QED
  BY <1>1, <1>2, <1>3, <1>4, <1>5, <1>6

LEMMA CallTypesStep ==
    ASSUME CallTypes, [Next]_vars
    PROVE  CallTypes'
<1> USE DEF CallTypes
<1>n. bound.epochs \in Nat /\ bound.settings \in Nat
  BY GroupMessagesAssumption
<1>1. CASE UNCHANGED <<settings, leaves, epoch, sending, limits>>
  BY <1>1 DEF settings, limits
<1>2. ASSUME NEW m \in Member, Insert(m) PROVE CallTypes'
  <2>1. leaves' \in Seq(Member)
    BY <1>2 DEF Insert, insert
  <2>2. UNCHANGED <<settings, epoch, sending, limits>>
    BY <1>2 DEF Insert, verifierVars
  <2> QED
    BY <2>1, <2>2 DEF settings, limits
<1>3. ASSUME NEW m \in Member, NEW p \in proofs, StartSend(m, p) PROVE CallTypes'
  <2>1. sending'.by \in Member
    BY <1>3 DEF StartSend
  <2>2. UNCHANGED <<settings, leaves, epoch, limits>>
    BY <1>3 DEF StartSend, verifierVars, treeVars
  <2> QED
    BY <2>1, <2>2 DEF settings, limits
<1>4. CASE SendFails \/ PostSend
  <2>1. sending' = NoSend /\ UNCHANGED <<settings, leaves, epoch, limits>>
    BY <1>4 DEF SendFails, PostSend, postGroupMessage, verifierVars, treeVars
  <2> QED
    BY <2>1 DEF settings, limits
<1>5. CASE Configure
  <2>1. configured' \in 0..bound.settings
    BY <1>5, <1>n DEF Configure
  <2>2. UNCHANGED <<leaves, epoch, sending, bound>>
    BY <1>5 DEF Configure, treeVars
  <2> QED
    BY <1>5, <2>1, <2>2, Configured
<1>6. ASSUME NEW g \in Group, RotateGroupKey(g) PROVE CallTypes'
  <2>1. epoch[g] + 1 \in 0..bound.epochs
    BY <1>6, <1>n DEF RotateGroupKey
  <2>2. epoch' = [epoch EXCEPT ![g] = @ + 1] /\ bound' = bound
    BY <1>6 DEF RotateGroupKey, limits
  <2>3. epoch' \in [Group -> 0..bound'.epochs]
    BY <2>1, <2>2
  <2>4. UNCHANGED <<settings, leaves, sending, limits>>
    BY <1>6 DEF RotateGroupKey, verifierVars, treeVars
  <2> QED
    BY <2>3, <2>4 DEF settings, limits
<1> QED
  BY <1>1, <1>2, <1>3, <1>4, <1>5, <1>6 DEF Next, StartProof, ReadRoot, Prove, ProveAsChecked,
     PostDirectMessage, PostBatch, postDirectMessage, postDirectMessageBatch, PostWithProof,
     postGroupMessage, Consume, verifyAndConsumeNullifier, ScanDirect, DirectThrows, OpenDirect,
     PassDirect, ScanGroups, GroupThrows, ScanEvent, CallFails, Throws, ScanReturns, Reload,
     vars, verifierVars, treeVars

\* What a scan opens and shows.
LEMMA ReadTypesStep ==
    ASSUME ReadingInv, HubTypes, ReadTypes, [Next]_vars
    PROVE  ReadTypes'
<1> USE DEF ReadTypes
<1>1. Nullifiers \subseteq Nullifiers'
  BY HubTypesStep DEF Nullifiers, LogNullifiers, ReadingInv
<1>2. CASE UNCHANGED <<opened, shown, failed>>
  BY <1>1, <1>2
<1>3. CASE OpenDirect
  <2>1. \E x \in DirectNullifier : opened' = opened \union {x}
    BY <1>3, Opening
  <2>2. shown' = shown /\ failed' = failed
    BY <1>3 DEF OpenDirect
  <2> QED
    BY <1>1, <2>1, <2>2
<1>4. CASE CallFails
  BY <1>1, <1>4 DEF CallFails, Throws
<1>5. CASE ScanReturns
  <2>1. scan.direct \subseteq DirectNullifier /\ HalfRead(scan, log) /\ scan.seen \in Nat
    BY <1>5 DEF ScanReturns, ReadingInv, ScanInv, ScanRecord
  <2>2. ASSUME NEW i \in Range(scan.texts) PROVE i \in DOMAIN log
    <3>1. i \in 1..scan.seen /\ scan.seen <= Len(log)
      BY <2>1 DEF HalfRead, Range
    <3> QED
      BY <2>1, <3>1, Domains DEF ReadingInv
  <2>3. Texts \subseteq Nullifiers
    BY <2>2 DEF Texts, Nullifiers
  <2>4. scan.direct \subseteq Nullifiers
    BY <2>1 DEF Nullifiers
  <2>5. shown' = shown \union scan.direct \union Texts /\ UNCHANGED <<opened, failed>>
    BY <1>5 DEF ScanReturns
  <2> QED
    BY <1>1, <2>3, <2>4, <2>5
<1>6. CASE Reload
  BY <1>1, <1>6 DEF Reload
<1> QED
  BY <1>2, <1>3, <1>4, <1>5, <1>6, Steps DEF ScanDirect, DirectThrows, PassDirect, ScanGroups,
     GroupThrows, ScanEvent, Throws, readerVars

\* The types, for any values of the constants.
THEOREM TypeCorrect == Spec => []TypeOK
<1>1. Init => HubTypes /\ CallTypes /\ ReadTypes
  <2> SUFFICES ASSUME Init PROVE HubTypes /\ CallTypes /\ ReadTypes
    OBVIOUS
  <2>1. bound.epochs \in Nat /\ bound.settings \in Nat
    BY GroupMessagesAssumption DEF Init
  <2>2. HubTypes /\ ReadTypes
    BY DEF Init, HubInit, HubTypes, ReadTypes
  <2>3. 0 \in 0..bound.epochs /\ 0 \in 0..bound.settings
    BY <2>1
  <2>4. /\ vkInitialized \in BOOLEAN /\ rootValidationEnabled \in BOOLEAN
        /\ authorizedRootRegistrars \subseteq Account
    BY DEF Init, VerifierInit
  <2>5. /\ leaves \in Seq(Member) /\ epoch = [g \in Group |-> 0] /\ sending = NoSend
        /\ configured = 0 /\ bound \in Bounds
    BY DEF Init
  <2>6. CallTypes
    BY <2>3, <2>4, <2>5 DEF CallTypes
  <2> QED
    BY <2>2, <2>6
<1>2. /\ ReaderInv /\ HubTypes /\ CallTypes /\ ReadTypes /\ [Next]_vars
      => HubTypes' /\ CallTypes' /\ ReadTypes'
  BY HubTypesStep, CallTypesStep, ReadTypesStep DEF ReaderInv, ReadingInv
<1>3. ReaderInv /\ IndexInv /\ HubTypes /\ CallTypes /\ ReadTypes => TypeOK
  <2> SUFFICES ASSUME ReaderInv, IndexInv, HubTypes, CallTypes, ReadTypes PROVE TypeOK
    OBVIOUS
  <2>1. usedNullifiers \subseteq Nullifiers
    BY DEF HubTypes, Nullifiers, LogNullifiers
  <2>2. Range(leaves) \subseteq Member
    BY DEF CallTypes, Range
  <2>3. \A t \in ViewTag :
            /\ viewTagArrayLength[t] = Len(messagesByViewTag[t])
            /\ viewTagArrayLength[t] \in 0..MAX_MESSAGES_PER_VIEW_TAG
    BY HubAssumption DEF IndexInv, IndexOK
  <2>4. scan.step \in {"idle", "direct", "groups"}
    BY DEF ReaderInv, ReadingInv, ScanInv, ScanRecord
  <2>5. \A p \in proofs : p.group \in Group
    BY DEF ReaderInv, ReadingInv, ProofsInv
  <2>6. sending # NoSend => sending.by \in Member /\ sending.key \in 0..epoch[sending.proof.group]
    BY DEF ReaderInv, ReadingInv, ProofsInv, CallTypes
  <2> QED
    BY <2>1, <2>2, <2>3, <2>4, <2>5, <2>6 DEF IndexInv, HubTypes, CallTypes, ReadTypes, TypeOK
<1> QED
  BY <1>1, <1>2, <1>3, ReaderAlways, IndexHolds, PTL DEF Spec

-----------------------------------------------------------------------------
(* Pages                                                                   *)

LEMMA InRange ==
    ASSUME NEW s, NEW pos, DOMAIN s = 1..pos, NEW i
    PROVE  i \in Range(s) <=> \E k \in 1..pos : i = s[k]
BY DEF Range

\* A page is the part of a list from the offset on that the limit allows.
IsPage(p, a, offset, limit) ==
    /\ p \in Seq(Nat) /\ Len(p) \in Nat /\ DOMAIN p = 1..Len(p)
    /\ \A j \in 1..Len(p) : j <= limit /\ offset + j \in 1..Len(a) /\ p[j] = a[offset + j]
    /\ \A pos \in 1..Len(a) :
           offset < pos /\ pos <= offset + limit
           => pos - offset \in 1..Len(p) /\ offset + (pos - offset) = pos
    /\ Len(p) < limit => offset + Len(p) >= Len(a)
    /\ offset >= Len(a) => p = <<>>

LEMMA PageParts ==
    ASSUME NEW t \in ViewTag, IndexOK(t), NEW offset \in Nat, NEW limit \in Nat, limit > 0
    PROVE  IsPage(getMessagesByViewTag(t, offset, limit), messagesByViewTag[t], offset, limit)
<1> DEFINE a == messagesByViewTag[t]
           p == getMessagesByViewTag(t, offset, limit)
           len == Len(a)
           end == IF offset + limit > len THEN len ELSE offset + limit
<1>1. a \in Seq(Nat) /\ len \in Nat /\ DOMAIN a = 1..len
  BY DEF IndexOK
<1>2. p = IF offset >= len THEN <<>> ELSE SubSeq(a, offset + 1, end)
  BY DEF getMessagesByViewTag
<1> HIDE DEF a, p, len
<1> SUFFICES IsPage(p, a, offset, limit)
  BY DEF p, a
<1>3. CASE offset >= len
  <2>1. p = <<>>
    BY <1>2, <1>3
  <2> QED
    BY <1>1, <1>3, <2>1 DEF IsPage, len
<1>4. CASE ~(offset >= len)
  <2>1. end \in Nat /\ offset < end /\ end <= len /\ end <= offset + limit
        /\ (end < offset + limit => end = len)
    BY <1>1, <1>4
  <2>2. \A i \in (offset + 1)..end : a[i] \in Nat
    BY <1>1, <2>1
  <2>3. p = SubSeq(a, offset + 1, end)
    BY <1>2, <1>4
  <2> HIDE DEF end
  <2>4. /\ p \in Seq(Nat) /\ Len(p) = end - offset /\ DOMAIN p = 1..Len(p)
        /\ \A j \in 1..(end - offset) : p[j] = a[offset + j]
    <3>1. offset + 1 \in 1..len + 1 /\ end \in (offset + 1) - 1..len
      BY <1>1, <2>1
    <3>2. /\ p \in Seq(Nat) /\ Len(p) = end - (offset + 1) + 1
          /\ \A j \in 1..(end - (offset + 1) + 1) : p[j] = a[(offset + 1) + j - 1]
      BY ONLY <1>1, <2>3, <3>1, SubSeqProperties, SMTT(30) DEF len
    <3>3. end - (offset + 1) + 1 = end - offset
          /\ \A j \in 1..(end - offset) : (offset + 1) + j - 1 = offset + j
      BY <2>1
    <3> QED
      BY <3>2, <3>3
  <2>5. ASSUME NEW j \in 1..Len(p) PROVE j <= limit /\ offset + j \in 1..len
    BY <1>1, <2>1, <2>4
  <2>6. ASSUME NEW pos \in 1..len, offset < pos, pos <= offset + limit
        PROVE  pos - offset \in 1..Len(p) /\ offset + (pos - offset) = pos
    BY <1>1, <2>1, <2>4, <2>6
  <2>7. Len(p) \in Nat /\ (Len(p) < limit => offset + Len(p) >= len)
    BY <1>1, <2>1, <2>4
  <2> QED
    BY <1>1, <1>4, <2>4, <2>5, <2>6, <2>7 DEF IsPage, len
<1> QED
  BY <1>3, <1>4

\* Every place of a list is on one of the pages.
LEMMA PageOfPlace ==
    ASSUME NEW pos \in Nat, pos > 0, NEW limit \in Nat, limit > 0
    PROVE  \E k \in 1..pos : (k - 1) * limit < pos /\ pos <= (k - 1) * limit + limit
<1> DEFINE K == {k \in Nat : pos <= k * limit}
<1>1. pos \in K
  <2>1. pos <= pos * limit
    OBVIOUS
  <2> QED
    BY <2>1
<1>2. PICK k \in K : \A l \in K : k <= l
  <2>1. K \in SUBSET Nat /\ K # {}
    BY <1>1
  <2> HIDE DEF K
  <2> QED
    BY <2>1, LeastNumber
<1>3. k \in Nat /\ pos <= k * limit /\ k <= pos
  BY <1>1, <1>2
<1>4. k # 0
  BY <1>3
<1>5. k - 1 \in Nat /\ k - 1 \notin K
  BY <1>2, <1>3, <1>4
<1>6. (k - 1) * limit < pos
  <2>1. (k - 1) * limit \in Nat
    BY <1>5
  <2> QED
    BY <1>5, <2>1
<1>7. k * limit = (k - 1) * limit + limit
  BY <1>3
<1> QED
  BY <1>3, <1>4, <1>6, <1>7

\* A page ends where a later one starts, or before.
LEMMA PagesApart ==
    ASSUME NEW k \in Nat, NEW l \in Nat, 1 <= k, k < l, NEW limit \in Nat
    PROVE  /\ (k - 1) * limit \in Nat /\ (l - 1) * limit \in Nat
           /\ (k - 1) * limit + limit <= (l - 1) * limit
<1>1. k - 1 \in Nat /\ l - 1 \in Nat /\ l - 1 - k \in Nat
  OBVIOUS
<1>2. (l - 1) * limit = (k - 1) * limit + limit + (l - 1 - k) * limit
  OBVIOUS
<1>3. (l - 1 - k) * limit \in Nat /\ (k - 1) * limit \in Nat /\ (l - 1) * limit \in Nat
  BY <1>1
<1> QED
  BY <1>2, <1>3

\* The pages of a tag cover the direct messages with it, for any limit of the
\* pages, of the index and of the batches, and however much is in the log.
THEOREM PagesHold == Spec => []PagesCoverLog
<1>1. ASSUME IndexInv, NEW t \in ViewTag, NEW limit \in 1..MaxUint
      PROVE  LET pages == 1..Len(messagesByViewTag[t]) + 1
                 page(k) == getMessagesByViewTag(t, (k - 1) * limit, limit)
             IN  /\ \A k \in pages : ~PageReverts(t, (k - 1) * limit, limit)
                 /\ UNION {Range(page(k)) : k \in pages} = {i - 1 : i \in Tagged(log, t)}
                 /\ \A k \in pages : Increasing(page(k))
                 /\ \A k, l \in pages : k < l =>
                        /\ \A i \in Range(page(k)), j \in Range(page(l)) : i < j
                        /\ Len(page(k)) < limit => page(l) = <<>>
  <2> DEFINE a == messagesByViewTag[t]
             len == Len(a)
             pages == 1..len + 1
             at(k) == (k - 1) * limit
             page(k) == getMessagesByViewTag(t, at(k), limit)
  <2>1. limit \in Nat /\ limit > 0 /\ limit <= MaxUint
    BY HubAssumption
  <2>2. /\ IndexOK(t) /\ a \in Seq(Nat) /\ len \in Nat /\ DOMAIN a = 1..len
        /\ len <= MAX_MESSAGES_PER_VIEW_TAG /\ Increasing(a)
        /\ Range(a) = {i - 1 : i \in Tagged(log, t)}
    <3>1. IndexOK(t)
      BY <1>1 DEF IndexInv
    <3> QED
      BY <3>1 DEF IndexOK
  <2>3. ASSUME NEW k \in pages
        PROVE  k \in Nat /\ k >= 1 /\ at(k) \in Nat /\ (k = 1 => at(k) = 0) /\ (k > 1 => at(k) >= limit)
    <3>1. k \in Nat /\ k >= 1 /\ k - 1 \in Nat
      BY <2>2
    <3>2. k > 1 => (k - 1) * limit = limit + (k - 2) * limit /\ k - 2 \in Nat
      BY <2>1, <3>1
    <3>3. k > 1 => (k - 2) * limit \in Nat
      BY <2>1, <3>2
    <3>4. (k - 1) * limit \in Nat /\ (k = 1 => (k - 1) * limit = 0)
      BY <2>1, <3>1
    <3> QED
      BY <2>1, <3>1, <3>2, <3>3, <3>4
  <2>4. ASSUME NEW k \in pages
        PROVE  /\ page(k) \in Seq(Nat) /\ Len(page(k)) \in Nat /\ DOMAIN page(k) = 1..Len(page(k))
               /\ \A j \in 1..Len(page(k)) :
                      j <= limit /\ at(k) + j \in 1..len /\ page(k)[j] = a[at(k) + j]
               /\ \A pos \in 1..len :
                      at(k) < pos /\ pos <= at(k) + limit
                      => pos - at(k) \in 1..Len(page(k)) /\ at(k) + (pos - at(k)) = pos
               /\ Len(page(k)) < limit => at(k) + Len(page(k)) >= len
               /\ at(k) >= len => page(k) = <<>>
    <3>1. at(k) \in Nat /\ t \in ViewTag /\ IndexOK(t)
      BY <2>2, <2>3
    <3>2. IsPage(page(k), a, at(k), limit)
      BY <2>1, <3>1, PageParts
    <3> HIDE DEF at, page, a
    <3> QED
      BY <3>2 DEF IsPage, len
  <2>5. ASSUME NEW k \in pages PROVE ~PageReverts(t, at(k), limit)
    <3> SUFFICES ASSUME at(k) < len, at(k) + limit > MaxUint PROVE FALSE
      BY DEF PageReverts
    <3>1. len \in Nat /\ MAX_MESSAGES_PER_VIEW_TAG \in Nat /\ MaxUint \in Nat
          /\ len <= MAX_MESSAGES_PER_VIEW_TAG /\ 2 * MAX_MESSAGES_PER_VIEW_TAG <= MaxUint
      BY <2>2, HubAssumption
    <3> HIDE DEF at, len
    <3> QED
      BY <2>1, <2>3, <3>1
  <2> HIDE DEF page, a, len
  <2>6. ASSUME NEW k \in pages, NEW i \in Range(page(k)) PROVE i \in Range(a)
    <3>1. PICK pos \in 1..Len(page(k)) : i = page(k)[pos]
      BY <2>4, <2>6, InRange
    <3>2. at(k) + pos \in 1..len /\ i = a[at(k) + pos]
      BY <2>4, <3>1
    <3> HIDE DEF at
    <3> QED
      BY <2>2, <3>2, InRange
  <2>7. ASSUME NEW i \in Range(a) PROVE \E k \in pages : i \in Range(page(k))
    <3>1. PICK pos \in 1..len : i = a[pos]
      BY <2>2, <2>7, InRange
    <3>0. pos \in Nat /\ pos > 0
      BY <2>2
    <3>2. PICK k \in 1..pos : (k - 1) * limit < pos /\ pos <= (k - 1) * limit + limit
      BY <2>1, <3>0, PageOfPlace
    <3>3. k \in pages
      BY <2>2
    <3>4. pos - at(k) \in 1..Len(page(k)) /\ at(k) + (pos - at(k)) = pos
      BY <2>4, <3>2, <3>3
    <3> HIDE DEF at
    <3>5. page(k)[pos - at(k)] = a[pos]
      BY <2>4, <3>3, <3>4
    <3> QED
      BY <2>4, <3>1, <3>3, <3>4, <3>5, InRange
  <2>8. UNION {Range(page(k)) : k \in pages} = {i - 1 : i \in Tagged(log, t)}
    BY <2>2, <2>6, <2>7
  <2>9. ASSUME NEW k \in pages PROVE Increasing(page(k))
    <3> SUFFICES ASSUME NEW i \in 1..Len(page(k)), NEW j \in 1..Len(page(k)), i < j
                 PROVE  page(k)[i] < page(k)[j]
      BY <2>4 DEF Increasing
    <3>1. /\ at(k) + i \in 1..len /\ page(k)[i] = a[at(k) + i]
          /\ at(k) + j \in 1..len /\ page(k)[j] = a[at(k) + j]
      BY <2>4
    <3>2. at(k) + i < at(k) + j
      BY <2>3
    <3> HIDE DEF at
    <3> QED
      BY <2>2, <3>1, <3>2 DEF Increasing
  <2>10. ASSUME NEW k \in pages, NEW l \in pages, k < l
         PROVE  /\ \A i \in Range(page(k)), j \in Range(page(l)) : i < j
                /\ Len(page(k)) < limit => page(l) = <<>>
    <3>1. at(k) \in Nat /\ at(l) \in Nat /\ at(k) + limit <= at(l)
      BY <2>1, <2>3, <2>10, PagesApart
    <3> HIDE DEF at
    <3>2. ASSUME NEW i \in 1..Len(page(k)), NEW j \in 1..Len(page(l))
          PROVE  page(k)[i] < page(l)[j]
      <4>1. /\ i <= limit /\ at(k) + i \in 1..len /\ page(k)[i] = a[at(k) + i]
            /\ at(l) + j \in 1..len /\ page(l)[j] = a[at(l) + j]
        BY <2>4
      <4>2. at(k) + i < at(l) + j
        BY <2>1, <3>1, <4>1
      <4> QED
        BY <2>2, <4>1, <4>2 DEF Increasing
    <3>3. \A i \in Range(page(k)), j \in Range(page(l)) : i < j
      <4> SUFFICES ASSUME NEW i \in Range(page(k)), NEW j \in Range(page(l)) PROVE i < j
        OBVIOUS
      <4>1. PICK x \in 1..Len(page(k)) : i = page(k)[x]
        BY <2>4, InRange
      <4>2. PICK y \in 1..Len(page(l)) : j = page(l)[y]
        BY <2>4, InRange
      <4> QED
        BY <3>2, <4>1, <4>2
    <3>4. ASSUME Len(page(k)) < limit PROVE page(l) = <<>>
      <4>1. at(k) + Len(page(k)) >= len /\ Len(page(k)) \in Nat
        BY <2>4, <3>4
      <4>2. at(l) >= len
        BY <2>1, <2>2, <3>1, <3>4, <4>1
      <4> QED
        BY <2>4, <4>2
    <3> QED
      BY <3>3, <3>4
  <2> QED
    BY <2>5, <2>8, <2>9, <2>10 DEF page, a, len
<1>2. IndexInv => PagesCoverLog
  BY <1>1 DEF PagesCoverLog
<1> QED
  BY <1>2, IndexHolds, PTL

-----------------------------------------------------------------------------
(* The identity tree                                                       *)

\* Induction over the levels, on a set of them.
LEMMA AllLevels ==
    ASSUME NEW h \in Nat, NEW S, 0 \in S, \A i \in 1..h : i - 1 \in S => i \in S
    PROVE  \A i \in 0..h : i \in S
<1> SUFFICES ASSUME (0..h) \ S # {} PROVE FALSE
  OBVIOUS
<1>1. (0..h) \ S \in SUBSET Nat
  OBVIOUS
<1>2. PICK x \in (0..h) \ S : \A y \in (0..h) \ S : x <= y
  BY <1>1, LeastNumber
<1>3. x \in 1..h /\ x - 1 \in 0..h /\ ~(x <= x - 1)
  BY <1>2
<1> QED
  BY <1>2, <1>3

\* The recursive functions have a value at every level.
LEMMA ZeroHash ==
    /\ zeroHashes[0] = ZeroLeaf
    /\ \A i \in 1..TREE_HEIGHT : zeroHashes[i] = hash2(zeroHashes[i - 1], zeroHashes[i - 1])
<1> DEFINE Def(k, f) == f = [i \in 0..k |-> IF i = 0 THEN ZeroLeaf ELSE hash2(f[i - 1], f[i - 1])]
           S == {k \in Nat : \E f : Def(k, f)}
<1>1. 0 \in S
  <2> DEFINE f == [i \in 0..0 |-> ZeroLeaf]
  <2>1. Def(0, f)
    OBVIOUS
  <2> QED
    BY <2>1
<1>2. ASSUME NEW k \in 1..TREE_HEIGHT, k - 1 \in S PROVE k \in S
  <2>1. PICK f : Def(k - 1, f)
    BY <1>2
  <2> DEFINE g == [i \in 0..k |-> IF i = k THEN hash2(f[k - 1], f[k - 1]) ELSE f[i]]
  <2>2. k \in Nat /\ k - 1 \in Nat
    BY MerkleAssumption
  <2>3. ASSUME NEW i \in 0..k
        PROVE  g[i] = IF i = 0 THEN ZeroLeaf ELSE hash2(g[i - 1], g[i - 1])
    <3>1. CASE i = k
      BY <2>2, <3>1
    <3>2. CASE i # k
      <4>1. i \in 0..k - 1
        BY <2>2, <3>2
      <4>2. f[i] = IF i = 0 THEN ZeroLeaf ELSE hash2(f[i - 1], f[i - 1])
        BY <2>1, <4>1
      <4>3. g[i] = f[i] /\ (i # 0 => g[i - 1] = f[i - 1])
        BY <2>2, <3>2
      <4> QED
        BY <4>2, <4>3
    <3> QED
      BY <3>1, <3>2
  <2>4. Def(k, g)
    BY <2>3
  <2> QED
    BY <2>2, <2>4
<1>3. TREE_HEIGHT \in S
  <2> HIDE DEF S
  <2> QED
    BY <1>1, <1>2, AllLevels, MerkleAssumption
<1>4. Def(TREE_HEIGHT, zeroHashes)
  BY <1>3 DEF zeroHashes
<1>5. \A i \in 0..TREE_HEIGHT :
          zeroHashes[i] = IF i = 0 THEN ZeroLeaf ELSE hash2(zeroHashes[i - 1], zeroHashes[i - 1])
  BY <1>4
<1> QED
  BY <1>5, MerkleAssumption

LEMMA LevelStep ==
    ASSUME NEW ids
    PROVE  /\ levels(ids)[0] = ids
           /\ \A i \in 1..TREE_HEIGHT :
                  levels(ids)[i] = nextLevel(levels(ids)[i - 1], i - 1)
<1> DEFINE First == ids
           Step(x, i) == nextLevel(x, i - 1)
           Def(k, f) == f = [i \in 0..k |-> IF i = 0 THEN First ELSE Step(f[i - 1], i)]
           S == {k \in Nat : \E f : Def(k, f)}
<1> HIDE DEF First, Step
<1>1. 0 \in S
  <2> DEFINE f == [i \in 0..0 |-> First]
  <2>1. Def(0, f)
    OBVIOUS
  <2> QED
    BY <2>1
<1>2. ASSUME NEW k \in 1..TREE_HEIGHT, k - 1 \in S PROVE k \in S
  <2>1. PICK f : Def(k - 1, f)
    BY <1>2
  <2> DEFINE g == [i \in 0..k |-> IF i = k THEN Step(f[k - 1], k) ELSE f[i]]
  <2>2. k \in Nat /\ k - 1 \in Nat
    BY MerkleAssumption
  <2>3. ASSUME NEW i \in 0..k
        PROVE  g[i] = IF i = 0 THEN First ELSE Step(g[i - 1], i)
    <3>1. CASE i = k
      BY <2>2, <3>1
    <3>2. CASE i # k
      <4>1. i \in 0..k - 1
        BY <2>2, <3>2
      <4>2. f[i] = IF i = 0 THEN First ELSE Step(f[i - 1], i)
        BY <2>1, <4>1
      <4>3. g[i] = f[i] /\ (i # 0 => g[i - 1] = f[i - 1])
        BY <2>2, <3>2
      <4> QED
        BY <4>2, <4>3
    <3> QED
      BY <3>1, <3>2
  <2>4. Def(k, g)
    BY <2>3
  <2> QED
    BY <2>2, <2>4
<1>3. TREE_HEIGHT \in S
  <2> HIDE DEF S
  <2> QED
    BY <1>1, <1>2, AllLevels, MerkleAssumption
<1>4. Def(TREE_HEIGHT, levels(ids))
  BY <1>3 DEF levels, First, Step
<1>5. \A i \in 0..TREE_HEIGHT :
          levels(ids)[i] = IF i = 0 THEN First ELSE Step(levels(ids)[i - 1], i)
  BY <1>4
<1>6. levels(ids)[0] = First
          /\ \A i \in 1..TREE_HEIGHT : levels(ids)[i] = Step(levels(ids)[i - 1], i)
  BY <1>5, MerkleAssumption
<1> QED
  BY <1>6 DEF First, Step

LEMMA HalvedStep ==
    ASSUME NEW index, NEW h \in Nat
    PROVE  /\ halved(index, h)[0] = index
           /\ \A i \in 1..h : halved(index, h)[i] = halved(index, h)[i - 1] \div 2
<1> DEFINE First == index
           Step(x, i) == x \div 2
           Def(k, f) == f = [i \in 0..k |-> IF i = 0 THEN First ELSE Step(f[i - 1], i)]
           S == {k \in Nat : \E f : Def(k, f)}
<1> HIDE DEF First, Step
<1>1. 0 \in S
  <2> DEFINE f == [i \in 0..0 |-> First]
  <2>1. Def(0, f)
    OBVIOUS
  <2> QED
    BY <2>1
<1>2. ASSUME NEW k \in 1..h, k - 1 \in S PROVE k \in S
  <2>1. PICK f : Def(k - 1, f)
    BY <1>2
  <2> DEFINE g == [i \in 0..k |-> IF i = k THEN Step(f[k - 1], k) ELSE f[i]]
  <2>2. k \in Nat /\ k - 1 \in Nat
    OBVIOUS
  <2>3. ASSUME NEW i \in 0..k
        PROVE  g[i] = IF i = 0 THEN First ELSE Step(g[i - 1], i)
    <3>1. CASE i = k
      BY <2>2, <3>1
    <3>2. CASE i # k
      <4>1. i \in 0..k - 1
        BY <2>2, <3>2
      <4>2. f[i] = IF i = 0 THEN First ELSE Step(f[i - 1], i)
        BY <2>1, <4>1
      <4>3. g[i] = f[i] /\ (i # 0 => g[i - 1] = f[i - 1])
        BY <2>2, <3>2
      <4> QED
        BY <4>2, <4>3
    <3> QED
      BY <3>1, <3>2
  <2>4. Def(k, g)
    BY <2>3
  <2> QED
    BY <2>2, <2>4
<1>3. h \in S
  <2> HIDE DEF S
  <2> QED
    BY <1>1, <1>2, AllLevels
<1>4. Def(h, halved(index, h))
  BY <1>3 DEF halved, First, Step
<1>5. \A i \in 0..h :
          halved(index, h)[i] = IF i = 0 THEN First ELSE Step(halved(index, h)[i - 1], i)
  BY <1>4
<1>6. halved(index, h)[0] = First
          /\ \A i \in 1..h : halved(index, h)[i] = Step(halved(index, h)[i - 1], i)
  BY <1>5
<1> QED
  BY <1>6 DEF First, Step

LEMMA WidthStep ==
    /\ width[0] = 1
    /\ \A i \in 1..TREE_HEIGHT : width[i] = 2 * width[i - 1]
<1> DEFINE First == 1
           Step(x, i) == 2 * x
           Def(k, f) == f = [i \in 0..k |-> IF i = 0 THEN First ELSE Step(f[i - 1], i)]
           S == {k \in Nat : \E f : Def(k, f)}
<1> HIDE DEF First, Step
<1>1. 0 \in S
  <2> DEFINE f == [i \in 0..0 |-> First]
  <2>1. Def(0, f)
    OBVIOUS
  <2> QED
    BY <2>1
<1>2. ASSUME NEW k \in 1..TREE_HEIGHT, k - 1 \in S PROVE k \in S
  <2>1. PICK f : Def(k - 1, f)
    BY <1>2
  <2> DEFINE g == [i \in 0..k |-> IF i = k THEN Step(f[k - 1], k) ELSE f[i]]
  <2>2. k \in Nat /\ k - 1 \in Nat
    BY MerkleAssumption
  <2>3. ASSUME NEW i \in 0..k
        PROVE  g[i] = IF i = 0 THEN First ELSE Step(g[i - 1], i)
    <3>1. CASE i = k
      BY <2>2, <3>1
    <3>2. CASE i # k
      <4>1. i \in 0..k - 1
        BY <2>2, <3>2
      <4>2. f[i] = IF i = 0 THEN First ELSE Step(f[i - 1], i)
        BY <2>1, <4>1
      <4>3. g[i] = f[i] /\ (i # 0 => g[i - 1] = f[i - 1])
        BY <2>2, <3>2
      <4> QED
        BY <4>2, <4>3
    <3> QED
      BY <3>1, <3>2
  <2>4. Def(k, g)
    BY <2>3
  <2> QED
    BY <2>2, <2>4
<1>3. TREE_HEIGHT \in S
  <2> HIDE DEF S
  <2> QED
    BY <1>1, <1>2, AllLevels, MerkleAssumption
<1>4. Def(TREE_HEIGHT, width)
  BY <1>3 DEF width, First, Step
<1>5. \A i \in 0..TREE_HEIGHT :
          width[i] = IF i = 0 THEN First ELSE Step(width[i - 1], i)
  BY <1>4
<1>6. width[0] = First /\ \A i \in 1..TREE_HEIGHT : width[i] = Step(width[i - 1], i)
  BY <1>5, MerkleAssumption
<1> QED
  BY <1>6 DEF First, Step

LEMMA NodesStep ==
    ASSUME NEW ids
    PROVE  /\ Nodes(ids)[0] = [place \in 1..width[TREE_HEIGHT] |->
                  IF place <= Len(ids) THEN ids[place] ELSE ZeroLeaf]
           /\ \A i \in 1..TREE_HEIGHT :
                  Nodes(ids)[i] = [place \in 1..width[TREE_HEIGHT - i] |->
                      hash2(Nodes(ids)[i - 1][2 * place - 1], Nodes(ids)[i - 1][2 * place])]
<1> DEFINE First == [place \in 1..width[TREE_HEIGHT] |->
                       IF place <= Len(ids) THEN ids[place] ELSE ZeroLeaf]
           Step(x, i) ==
               [place \in 1..width[TREE_HEIGHT - i] |-> hash2(x[2 * place - 1], x[2 * place])]
           Def(k, f) == f = [i \in 0..k |-> IF i = 0 THEN First ELSE Step(f[i - 1], i)]
           S == {k \in Nat : \E f : Def(k, f)}
<1> HIDE DEF First, Step
<1>1. 0 \in S
  <2> DEFINE f == [i \in 0..0 |-> First]
  <2>1. Def(0, f)
    OBVIOUS
  <2> QED
    BY <2>1
<1>2. ASSUME NEW k \in 1..TREE_HEIGHT, k - 1 \in S PROVE k \in S
  <2>1. PICK f : Def(k - 1, f)
    BY <1>2
  <2> DEFINE g == [i \in 0..k |-> IF i = k THEN Step(f[k - 1], k) ELSE f[i]]
  <2>2. k \in Nat /\ k - 1 \in Nat
    BY MerkleAssumption
  <2>3. ASSUME NEW i \in 0..k
        PROVE  g[i] = IF i = 0 THEN First ELSE Step(g[i - 1], i)
    <3>1. CASE i = k
      BY <2>2, <3>1
    <3>2. CASE i # k
      <4>1. i \in 0..k - 1
        BY <2>2, <3>2
      <4>2. f[i] = IF i = 0 THEN First ELSE Step(f[i - 1], i)
        BY <2>1, <4>1
      <4>3. g[i] = f[i] /\ (i # 0 => g[i - 1] = f[i - 1])
        BY <2>2, <3>2
      <4> QED
        BY <4>2, <4>3
    <3> QED
      BY <3>1, <3>2
  <2>4. Def(k, g)
    BY <2>3
  <2> QED
    BY <2>2, <2>4
<1>3. TREE_HEIGHT \in S
  <2> HIDE DEF S
  <2> QED
    BY <1>1, <1>2, AllLevels, MerkleAssumption
<1>4. Def(TREE_HEIGHT, Nodes(ids))
  BY <1>3 DEF Nodes, First, Step
<1>5. \A i \in 0..TREE_HEIGHT :
          Nodes(ids)[i] = IF i = 0 THEN First ELSE Step(Nodes(ids)[i - 1], i)
  BY <1>4
<1>6. Nodes(ids)[0] = First /\ \A i \in 1..TREE_HEIGHT : Nodes(ids)[i] = Step(Nodes(ids)[i - 1], i)
  BY <1>5, MerkleAssumption
<1> QED
  BY <1>6 DEF First, Step

\* The loop of computeRoot.
IsHash(hash, leaf, siblings, index, h) ==
    /\ hash[0] = leaf
    /\ \A i \in 1..h :
           hash[i] = IF halved(index, h)[i - 1] % 2 = 1
                     THEN hash2(siblings[i], hash[i - 1])
                     ELSE hash2(hash[i - 1], siblings[i])

LEMMA HashSteps ==
    ASSUME NEW leaf, NEW siblings, NEW index, NEW h \in Nat, Len(siblings) = h
    PROVE  \E hash : computeRoot(leaf, siblings, index) = hash[h]
            /\ IsHash(hash, leaf, siblings, index, h)
<1> DEFINE First == leaf
           Step(x, i) ==
               IF halved(index, h)[i - 1] % 2 = 1 THEN hash2(siblings[i], x) ELSE hash2(x, siblings[i])
           Def(k, f) == f = [i \in 0..k |-> IF i = 0 THEN First ELSE Step(f[i - 1], i)]
           S == {k \in Nat : \E f : Def(k, f)}
<1> HIDE DEF First, Step
<1>1. 0 \in S
  <2> DEFINE f == [i \in 0..0 |-> First]
  <2>1. Def(0, f)
    OBVIOUS
  <2> QED
    BY <2>1
<1>2. ASSUME NEW k \in 1..h, k - 1 \in S PROVE k \in S
  <2>1. PICK f : Def(k - 1, f)
    BY <1>2
  <2> DEFINE g == [i \in 0..k |-> IF i = k THEN Step(f[k - 1], k) ELSE f[i]]
  <2>2. k \in Nat /\ k - 1 \in Nat
    OBVIOUS
  <2>3. ASSUME NEW i \in 0..k
        PROVE  g[i] = IF i = 0 THEN First ELSE Step(g[i - 1], i)
    <3>1. CASE i = k
      BY <2>2, <3>1
    <3>2. CASE i # k
      <4>1. i \in 0..k - 1
        BY <2>2, <3>2
      <4>2. f[i] = IF i = 0 THEN First ELSE Step(f[i - 1], i)
        BY <2>1, <4>1
      <4>3. g[i] = f[i] /\ (i # 0 => g[i - 1] = f[i - 1])
        BY <2>2, <3>2
      <4> QED
        BY <4>2, <4>3
    <3> QED
      BY <3>1, <3>2
  <2>4. Def(k, g)
    BY <2>3
  <2> QED
    BY <2>2, <2>4
<1>3. h \in S
  <2> HIDE DEF S
  <2> QED
    BY <1>1, <1>2, AllLevels
<1> DEFINE hash == CHOOSE f : Def(h, f)
<1>4. Def(h, hash) /\ computeRoot(leaf, siblings, index) = hash[h]
  <2>1. Def(h, hash)
    BY <1>3
  <2>2. computeRoot(leaf, siblings, index) = hash[h]
    BY DEF computeRoot, First, Step
  <2> QED
    BY <2>1, <2>2
<1> HIDE DEF hash
<1>5. hash[0] = First /\ \A i \in 1..h : hash[i] = Step(hash[i - 1], i)
  BY <1>4
<1> QED
  BY <1>4, <1>5 DEF IsHash, First, Step

\* What a round of the loops makes of a level.
IsLevel(s) == Len(s) \in Nat /\ DOMAIN s = 1..Len(s)

LEMMA Rounds ==
    ASSUME NEW s, IsLevel(s), NEW i
    PROVE  /\ IsLevel(nextLevel(s, i)) /\ Len(nextLevel(s, i)) = (Len(s) + 1) \div 2
           /\ \A j \in 1..Len(nextLevel(s, i)) :
                  /\ 2 * j - 1 \in 1..Len(s)
                  /\ nextLevel(s, i)[j] =
                         hash2(s[2 * j - 1], IF 2 * j <= Len(s) THEN s[2 * j] ELSE zeroHashes[i])
<1> DEFINE k == (Len(s) + 1) \div 2
           t == nextLevel(s, i)
<1>1. Len(s) \in Nat /\ k \in Nat /\ 2 * k <= Len(s) + 1
  BY DEF IsLevel
<1>2. t = [j \in 1..k |-> hash2(s[2 * j - 1], IF 2 * j <= Len(s) THEN s[2 * j] ELSE zeroHashes[i])]
  BY DEF nextLevel
<1> HIDE DEF k, t
<1>3. DOMAIN t = 1..k /\ \A j \in 1..k :
          t[j] = hash2(s[2 * j - 1], IF 2 * j <= Len(s) THEN s[2 * j] ELSE zeroHashes[i])
  BY <1>2
<1>4. Len(t) = k
  <2>1. t \in [1..k -> {t[j] : j \in 1..k}]
    BY <1>2, <1>3
  <2>2. t \in Seq({t[j] : j \in 1..k})
    BY <1>1, <2>1
  <2> QED
    BY <1>1, <1>3, <2>2
<1>5. \A j \in 1..k : 2 * j - 1 \in 1..Len(s)
  BY <1>1
<1> QED
  BY <1>1, <1>3, <1>4, <1>5 DEF IsLevel, k, t

LEMMA LevelsAre ==
    ASSUME NEW ids, IsLevel(ids)
    PROVE  /\ \A i \in 0..TREE_HEIGHT : IsLevel(levels(ids)[i])
           /\ \A i \in 1..TREE_HEIGHT :
                  Len(levels(ids)[i]) = (Len(levels(ids)[i - 1]) + 1) \div 2
<1> DEFINE L == levels(ids)
           S == {i \in 0..TREE_HEIGHT : IsLevel(L[i])}
<1>1. L[0] = ids /\ \A i \in 1..TREE_HEIGHT : L[i] = nextLevel(L[i - 1], i - 1)
  BY LevelStep
<1> HIDE DEF L
<1>2. 0 \in S
  BY <1>1, MerkleAssumption
<1>3. ASSUME NEW i \in 1..TREE_HEIGHT, i - 1 \in S PROVE i \in S
  BY <1>1, <1>3, Rounds
<1>4. \A i \in 0..TREE_HEIGHT : i \in S
  <2> HIDE DEF S
  <2> QED
    BY <1>2, <1>3, AllLevels, MerkleAssumption
<1>5. ASSUME NEW i \in 1..TREE_HEIGHT PROVE Len(L[i]) = (Len(L[i - 1]) + 1) \div 2
  <2>1. i - 1 \in 0..TREE_HEIGHT
    BY MerkleAssumption
  <2>2. IsLevel(L[i - 1]) /\ L[i] = nextLevel(L[i - 1], i - 1)
    BY <1>1, <1>4, <2>1
  <2> QED
    BY <2>2, Rounds
<1> QED
  BY <1>4, <1>5 DEF L

\* Different ids have different nodes above them.
Distinct(s) == \A j, k \in 1..Len(s) : s[j] = s[k] => j = k

LEMMA LevelsDistinct ==
    ASSUME NEW ids, IsLevel(ids), Distinct(ids)
    PROVE  \A i \in 0..TREE_HEIGHT : Distinct(levels(ids)[i])
<1> DEFINE L == levels(ids)
           S == {i \in 0..TREE_HEIGHT : Distinct(L[i])}
<1>1. L[0] = ids /\ \A i \in 1..TREE_HEIGHT : L[i] = nextLevel(L[i - 1], i - 1)
  BY LevelStep
<1>2. \A i \in 0..TREE_HEIGHT : IsLevel(L[i])
  BY LevelsAre
<1> HIDE DEF L
<1>3. 0 \in S
  BY <1>1, MerkleAssumption
<1>4. ASSUME NEW i \in 1..TREE_HEIGHT, i - 1 \in S PROVE i \in S
  <2> DEFINE s == L[i - 1]
             t == L[i]
  <2>1. IsLevel(s) /\ t = nextLevel(s, i - 1) /\ Distinct(s)
    BY <1>1, <1>2, <1>4
  <2> HIDE DEF s, t
  <2>2. ASSUME NEW j \in 1..Len(t), NEW k \in 1..Len(t), t[j] = t[k] PROVE j = k
    <3>0. \A l \in 1..Len(t) :
              /\ 2 * l - 1 \in 1..Len(s)
              /\ t[l] = hash2(s[2 * l - 1],
                              IF 2 * l <= Len(s) THEN s[2 * l] ELSE zeroHashes[i - 1])
      BY <2>1, Rounds
    <3>h. \A u, v, w, z : hash2(u, v) = hash2(w, z) => u = w
      BY DEF hash2
    <3>1. /\ 2 * j - 1 \in 1..Len(s) /\ 2 * k - 1 \in 1..Len(s)
          /\ s[2 * j - 1] = s[2 * k - 1]
      BY <2>2, <3>0, <3>h
    <3>2. 2 * j - 1 = 2 * k - 1
      BY <2>1, <3>1 DEF Distinct
    <3>3. j \in Int /\ k \in Int
      OBVIOUS
    <3> QED
      BY <3>2, <3>3
  <2> QED
    BY <2>2 DEF Distinct, t
<1> HIDE DEF S
<1>5. \A i \in 0..TREE_HEIGHT : i \in S
  BY <1>3, <1>4, AllLevels, MerkleAssumption
<1> QED
  BY <1>5 DEF S, L

\* Halving an index as often as the tree is high ids 0 of the indices that
\* the tree has places for.
LEMMA Widths ==
    /\ \A i \in 0..TREE_HEIGHT : width[i] \in Nat /\ width[i] > 0
    /\ \A i \in 1..TREE_HEIGHT : width[i] = 2 * width[i - 1]
    /\ width[0] = 1
<1> DEFINE S == {i \in 0..TREE_HEIGHT : width[i] \in Nat /\ width[i] > 0}
<1>1. 0 \in S
  BY WidthStep, MerkleAssumption
<1>2. ASSUME NEW i \in 1..TREE_HEIGHT, i - 1 \in S PROVE i \in S
  BY <1>2, WidthStep
<1> HIDE DEF S
<1>3. \A i \in 0..TREE_HEIGHT : i \in S
  BY <1>1, <1>2, AllLevels, MerkleAssumption
<1> QED
  BY <1>3, WidthStep DEF S

LEMMA HalvedWidths ==
    ASSUME NEW index \in Nat
    PROVE  /\ \A i \in 0..TREE_HEIGHT : halved(index, TREE_HEIGHT)[i] \in Nat
           /\ halved(index, TREE_HEIGHT)[TREE_HEIGHT] = 0 <=> index < width[TREE_HEIGHT]
<1> DEFINE x == halved(index, TREE_HEIGHT)
           S == {i \in 0..TREE_HEIGHT : /\ x[i] \in Nat
                                        /\ x[i] * width[i] <= index
                                        /\ index < x[i] * width[i] + width[i]}
<1>1. x[0] = index /\ \A i \in 1..TREE_HEIGHT : x[i] = x[i - 1] \div 2
  BY HalvedStep, MerkleAssumption
<1> HIDE DEF x
<1>2. 0 \in S
  BY <1>1, Widths, MerkleAssumption
<1>3. ASSUME NEW i \in 1..TREE_HEIGHT, i - 1 \in S PROVE i \in S
  <2> DEFINE a == x[i - 1]
             b == x[i]
             w == width[i - 1]
             v == width[i]
  <2>1. /\ a \in Nat /\ a * w <= index /\ index < a * w + w /\ w \in Nat /\ w > 0
        /\ b = a \div 2 /\ v = 2 * w
    BY <1>1, <1>3, Widths
  <2> HIDE DEF a, b, v, w
  <2>2. b \in Nat /\ (a = 2 * b \/ a = 2 * b + 1)
    BY <2>1
  <2> DEFINE m == b * w
  <2>3. m \in Nat /\ b * v = m + m /\ (a * w = m + m \/ a * w = m + m + w)
    BY <2>1, <2>2
  <2> HIDE DEF m
  <2>4. b * v <= index /\ index < b * v + v
    <3>1. a * w \in Nat /\ b * v \in Nat
      BY <2>1, <2>2, <2>3
    <3> QED
      BY <2>1, <2>3, <3>1
  <2> QED
    BY <2>2, <2>4 DEF b, v
<1> HIDE DEF S
<1>4. \A i \in 0..TREE_HEIGHT : i \in S
  BY <1>2, <1>3, AllLevels, MerkleAssumption
<1>5. x[TREE_HEIGHT] = 0 <=> index < width[TREE_HEIGHT]
  <2> DEFINE a == x[TREE_HEIGHT]
             w == width[TREE_HEIGHT]
  <2>1. a \in Nat /\ a * w <= index /\ index < a * w + w /\ w \in Nat /\ w > 0
    BY <1>4, Widths, MerkleAssumption DEF S
  <2> HIDE DEF a, w
  <2>2. a = 0 => a * w = 0
    BY <2>1
  <2>3. a # 0 => a * w >= w
    BY <2>1
  <2>4. a * w \in Nat
    BY <2>1
  <2>5. a = 0 <=> index < w
    BY <2>1, <2>2, <2>3, <2>4
  <2> QED
    BY <2>5 DEF a, w
<1> QED
  BY <1>4, <1>5 DEF S, x

\* Of a pair, the path has the one that is not on the way: with the other it
\* makes the node above.
Beside(s, a, i) ==
    LET sibling == IF a % 2 = 0 THEN a + 2 ELSE a
    IN  IF sibling <= Len(s) THEN s[sibling] ELSE zeroHashes[i]

LEMMA PairAbove ==
    ASSUME NEW s, IsLevel(s), NEW i, NEW a \in Nat, a + 1 \in 1..Len(s)
    PROVE  /\ (a \div 2) + 1 \in 1..Len(nextLevel(s, i))
           /\ nextLevel(s, i)[(a \div 2) + 1]
                  = IF a % 2 = 1 THEN hash2(Beside(s, a, i), s[a + 1])
                    ELSE hash2(s[a + 1], Beside(s, a, i))
<1> DEFINE t == nextLevel(s, i)
           b == a \div 2
           sibling == IF a % 2 = 0 THEN a + 2 ELSE a
           e == Beside(s, a, i)
<1>0. /\ e = IF sibling <= Len(s) THEN s[sibling] ELSE zeroHashes[i]
      /\ sibling = IF a % 2 = 0 THEN a + 2 ELSE a
      /\ b \in Nat /\ b = a \div 2
  BY DEF Beside
<1>1. /\ Len(s) \in Nat /\ Len(t) = (Len(s) + 1) \div 2
      /\ \A j \in 1..Len(t) :
             t[j] = hash2(s[2 * j - 1], IF 2 * j <= Len(s) THEN s[2 * j] ELSE zeroHashes[i])
  BY Rounds DEF IsLevel
<1> HIDE DEF t, b, e, sibling
<1>2. b + 1 \in 1..Len(t)
  <2> DEFINE len == Len(s)
  <2>1. len \in Nat /\ a + 1 <= len /\ Len(t) = (len + 1) \div 2
    BY <1>1
  <2> HIDE DEF len
  <2>2. b + 1 <= (len + 1) \div 2 /\ (len + 1) \div 2 \in Nat
    BY <1>0, <2>1
  <2> QED
    BY <1>0, <2>1, <2>2
<1>3. t[b + 1] = hash2(s[2 * (b + 1) - 1],
                       IF 2 * (b + 1) <= Len(s) THEN s[2 * (b + 1)] ELSE zeroHashes[i])
  BY <1>1, <1>2
<1>4. ASSUME a % 2 = 0 PROVE t[b + 1] = hash2(s[a + 1], e)
  <2>1. 2 * (b + 1) - 1 = a + 1 /\ 2 * (b + 1) = a + 2 /\ sibling = a + 2 /\ ~(a % 2 = 1)
    BY <1>0, <1>4
  <2> QED
    BY <1>0, <1>2, <1>3, <2>1
<1>5. ASSUME a % 2 = 1 PROVE t[b + 1] = hash2(e, s[a + 1])
  <2>1. 2 * (b + 1) - 1 = a /\ 2 * (b + 1) = a + 1 /\ sibling = a /\ a + 1 <= Len(s) /\ a <= Len(s)
    BY <1>0, <1>1, <1>5
  <2> QED
    BY <1>0, <1>2, <1>3, <1>5, <2>1
<1> QED
  <2>1. a % 2 = 0 \/ a % 2 = 1
    OBVIOUS
  <2>2. b + 1 \in 1..Len(t) /\ t[b + 1] = IF a % 2 = 1 THEN hash2(e, s[a + 1]) ELSE hash2(s[a + 1], e)
    BY <1>2, <1>4, <1>5, <2>1
  <2> QED
    BY <2>2 DEF t, b, e

\* The path of a leaf leads to the node of the highest level that it is under.
LEMMA PathLeads ==
    ASSUME NEW ids, IsLevel(ids), NEW place \in 1..Len(ids),
           NEW x, x = halved(place - 1, TREE_HEIGHT)
    PROVE  /\ x[TREE_HEIGHT] + 1 \in 1..Len(levels(ids)[TREE_HEIGHT])
           /\ computeRoot(ids[place], pathElements(ids, place), place - 1)
                  = levels(ids)[TREE_HEIGHT][x[TREE_HEIGHT] + 1]
<1> DEFINE h == TREE_HEIGHT
           L == levels(ids)
           p == pathElements(ids, place)
<1>h. h \in Nat
  BY MerkleAssumption
<1>1. L[0] = ids /\ \A i \in 1..h : L[i] = nextLevel(L[i - 1], i - 1)
  BY LevelStep
<1>2. \A i \in 0..h : IsLevel(L[i])
  BY LevelsAre
<1>3. place - 1 \in Nat /\ (place - 1) + 1 = place
  BY DEF IsLevel
<1>4. x[0] = place - 1 /\ (\A i \in 1..h : x[i] = x[i - 1] \div 2) /\ \A i \in 0..h : x[i] \in Nat
  BY <1>3, <1>h, HalvedStep, HalvedWidths
<1>5. \A i \in 1..h : p[i] = Beside(L[i - 1], x[i - 1], i - 1)
  BY DEF pathElements, Beside
<1>6. Len(p) = h
  <2>1. DOMAIN p = 1..h
    BY DEF pathElements
  <2>2. p \in [1..h -> {p[i] : i \in 1..h}]
    BY <2>1 DEF pathElements
  <2>3. p \in Seq({p[i] : i \in 1..h})
    BY <1>h, <2>2
  <2> QED
    BY <1>h, <2>1, <2>3
<1> HIDE DEF L, p, h
<1>7. PICK hash :
          /\ computeRoot(ids[place], p, place - 1) = hash[h]
          /\ IsHash(hash, ids[place], p, place - 1, h)
  BY <1>6, <1>h, HashSteps
<1>8. \A i \in 1..h :
          hash[i] = IF x[i - 1] % 2 = 1 THEN hash2(p[i], hash[i - 1]) ELSE hash2(hash[i - 1], p[i])
  BY <1>7 DEF h, IsHash
<1> DEFINE S == {i \in 0..h : x[i] + 1 \in 1..Len(L[i]) /\ hash[i] = L[i][x[i] + 1]}
<1>9. 0 \in S
  BY <1>1, <1>3, <1>4, <1>7, <1>h DEF IsHash
<1>10. ASSUME NEW i \in 1..h, i - 1 \in S PROVE i \in S
  <2> DEFINE s == L[i - 1]
             a == x[i - 1]
             b == x[i]
  <2>1. IsLevel(s) /\ L[i] = nextLevel(s, i - 1)
    BY <1>1, <1>2, <1>10
  <2>2. a \in Nat /\ b \in Nat /\ b = a \div 2 /\ a + 1 \in 1..Len(s) /\ hash[i - 1] = s[a + 1]
    BY <1>4, <1>10
  <2>3. p[i] = Beside(s, a, i - 1)
    BY <1>5
  <2>4. hash[i] = IF a % 2 = 1 THEN hash2(p[i], s[a + 1]) ELSE hash2(s[a + 1], p[i])
    BY <1>8, <2>2
  <2> HIDE DEF s, a, b
  <2>6. /\ b + 1 \in 1..Len(nextLevel(s, i - 1))
        /\ nextLevel(s, i - 1)[b + 1]
               = IF a % 2 = 1 THEN hash2(p[i], s[a + 1]) ELSE hash2(s[a + 1], p[i])
    BY ONLY <2>1, <2>2, <2>3, PairAbove
  <2> QED
    BY <2>1, <2>4, <2>6 DEF b
<1> HIDE DEF S
<1>11. \A i \in 0..h : i \in S
  BY <1>9, <1>10, <1>h, AllLevels
<1> QED
  BY <1>7, <1>11, <1>h DEF S, L, p, h

\* The path of a leaf opens the root if the tree has a place for the leaf.
LEMMA PathOpensRoot ==
    ASSUME NEW ids, IsLevel(ids), Distinct(ids), NEW place \in 1..Len(ids)
    PROVE  verify(ids[place], pathElements(ids, place), place - 1, getRoot(ids))
               <=> place <= width[TREE_HEIGHT]
<1> DEFINE x == halved(place - 1, TREE_HEIGHT)[TREE_HEIGHT]
           t == levels(ids)[TREE_HEIGHT]
           node == computeRoot(ids[place], pathElements(ids, place), place - 1)
<1>1. place - 1 \in Nat /\ ids # <<>>
  BY DEF IsLevel
<1>2. x \in Nat /\ (x = 0 <=> place - 1 < width[TREE_HEIGHT]) /\ width[TREE_HEIGHT] \in Nat
  BY <1>1, HalvedWidths, Widths, MerkleAssumption
<1>3. x + 1 \in 1..Len(t) /\ node = t[x + 1]
  BY PathLeads
<1>4. getRoot(ids) = t[1]
  BY <1>1 DEF getRoot
<1>5. Distinct(t) /\ IsLevel(t)
  <2>1. TREE_HEIGHT \in 0..TREE_HEIGHT
    BY MerkleAssumption
  <2>2. Distinct(t)
    BY <2>1, LevelsDistinct
  <2> QED
    BY <2>1, <2>2, LevelsAre
<1>6. verify(ids[place], pathElements(ids, place), place - 1, getRoot(ids)) <=> node = t[1]
  BY <1>4 DEF verify
<1> HIDE DEF x, t, node
<1>7. 1 \in 1..Len(t)
  BY <1>2, <1>3, <1>5 DEF IsLevel
<1>8. node = t[1] <=> x = 0
  <2>1. node = t[1] => x + 1 = 1
    BY <1>3, <1>5, <1>7 DEF Distinct
  <2> QED
    BY <1>2, <1>3, <2>1
<1>9. place - 1 < width[TREE_HEIGHT] <=> place <= width[TREE_HEIGHT]
  BY <1>2
<1> QED
  BY <1>2, <1>6, <1>8, <1>9

\* Only the levels of an empty tree are empty.
LEMMA LevelsEmpty ==
    ASSUME NEW ids, IsLevel(ids)
    PROVE  \A i \in 0..TREE_HEIGHT : Len(levels(ids)[i]) = 0 <=> Len(ids) = 0
<1> DEFINE L == levels(ids)
           S == {i \in 0..TREE_HEIGHT : Len(L[i]) = 0 <=> Len(ids) = 0}
<1>1. L[0] = ids
  BY LevelStep
<1>2. /\ \A i \in 0..TREE_HEIGHT : Len(L[i]) \in Nat
      /\ \A i \in 1..TREE_HEIGHT : Len(L[i]) = (Len(L[i - 1]) + 1) \div 2
  BY LevelsAre DEF IsLevel
<1> HIDE DEF L
<1>3. 0 \in S
  BY <1>1, MerkleAssumption
<1>4. ASSUME NEW i \in 1..TREE_HEIGHT, i - 1 \in S PROVE i \in S
  <2>0. i - 1 \in 0..TREE_HEIGHT
    BY MerkleAssumption
  <2>1. Len(L[i - 1]) \in Nat /\ Len(L[i]) = (Len(L[i - 1]) + 1) \div 2
    BY <1>2, <2>0
  <2>2. ASSUME NEW k \in Nat PROVE (k + 1) \div 2 = 0 <=> k = 0
    OBVIOUS
  <2>3. Len(L[i]) = 0 <=> Len(L[i - 1]) = 0
    BY <2>1, <2>2
  <2> QED
    BY <1>4, <2>3
<1> HIDE DEF S
<1>5. \A i \in 0..TREE_HEIGHT : i \in S
  BY <1>3, <1>4, AllLevels, MerkleAssumption
<1> QED
  BY <1>5 DEF S, L

\* A level is that of the complete tree, without the zero hashes at its end.
LEMMA LevelsComplete ==
    ASSUME NEW ids, IsLevel(ids)
    PROVE  \A i \in 0..TREE_HEIGHT : \A place \in 1..width[TREE_HEIGHT - i] :
               Nodes(ids)[i][place] = IF place <= Len(levels(ids)[i])
                                         THEN levels(ids)[i][place] ELSE zeroHashes[i]
<1> DEFINE L == levels(ids)
           N == Nodes(ids)
           Same(i) == \A p \in 1..width[TREE_HEIGHT - i] :
                          N[i][p] = IF p <= Len(L[i]) THEN L[i][p] ELSE zeroHashes[i]
           S == {i \in 0..TREE_HEIGHT : Same(i)}
<1>1. L[0] = ids /\ \A i \in 1..TREE_HEIGHT : L[i] = nextLevel(L[i - 1], i - 1)
  BY LevelStep
<1>2. \A i \in 0..TREE_HEIGHT : IsLevel(L[i])
  BY LevelsAre
<1>3. /\ N[0] = [p \in 1..width[TREE_HEIGHT] |-> IF p <= Len(ids) THEN ids[p] ELSE ZeroLeaf]
      /\ \A i \in 1..TREE_HEIGHT :
             N[i] = [p \in 1..width[TREE_HEIGHT - i] |->
                        hash2(N[i - 1][2 * p - 1], N[i - 1][2 * p])]
  BY NodesStep
<1> HIDE DEF L, N
<1>4. 0 \in S
  <2>1. TREE_HEIGHT - 0 = TREE_HEIGHT /\ 0 \in 0..TREE_HEIGHT
    BY MerkleAssumption
  <2>2. Same(0)
    BY <1>1, <1>3, <2>1, ZeroHash
  <2> QED
    BY <2>1, <2>2
<1>5. ASSUME NEW i \in 1..TREE_HEIGHT, i - 1 \in S PROVE i \in S
  <2> DEFINE s == L[i - 1]
             t == L[i]
             w == width[TREE_HEIGHT - i]
  <2>1. TREE_HEIGHT - i \in 0..TREE_HEIGHT /\ i - 1 \in 0..TREE_HEIGHT /\ i \in 0..TREE_HEIGHT
        /\ TREE_HEIGHT - (i - 1) \in 1..TREE_HEIGHT
        /\ (TREE_HEIGHT - (i - 1)) - 1 = TREE_HEIGHT - i
    BY MerkleAssumption
  <2>2. w \in Nat /\ width[TREE_HEIGHT - (i - 1)] = 2 * w
    BY <2>1, Widths
  <2>3. IsLevel(s) /\ IsLevel(t) /\ t = nextLevel(s, i - 1)
    BY <1>1, <1>2, <2>1
  <2>4. zeroHashes[i] = hash2(zeroHashes[i - 1], zeroHashes[i - 1])
    BY ZeroHash
  <2>5. \A p \in 1..2 * w :
            N[i - 1][p] = IF p <= Len(s) THEN s[p] ELSE zeroHashes[i - 1]
    BY <1>5, <2>2
  <2>6. \A p \in 1..w : N[i][p] = hash2(N[i - 1][2 * p - 1], N[i - 1][2 * p])
    BY <1>3
  <2> HIDE DEF s, t, w
  <2>7. /\ Len(s) \in Nat /\ Len(t) = (Len(s) + 1) \div 2
        /\ \A p \in 1..Len(t) :
               t[p] = hash2(s[2 * p - 1], IF 2 * p <= Len(s) THEN s[2 * p] ELSE zeroHashes[i - 1])
    BY <2>3, Rounds DEF IsLevel
  <2>8. ASSUME NEW p \in 1..w
        PROVE  N[i][p] = IF p <= Len(t) THEN t[p] ELSE zeroHashes[i]
    <3>1. 2 * p - 1 \in 1..2 * w /\ 2 * p \in 1..2 * w
      BY <2>2
    <3>2. CASE p <= Len(t)
      <4>1. p \in 1..Len(t) /\ 2 * p - 1 <= Len(s)
        BY <2>2, <2>7, <3>2
      <4>2. N[i - 1][2 * p - 1] = s[2 * p - 1]
        BY <2>5, <3>1, <4>1
      <4>3. N[i - 1][2 * p] = IF 2 * p <= Len(s) THEN s[2 * p] ELSE zeroHashes[i - 1]
        BY <2>5, <3>1
      <4>4. t[p] = hash2(s[2 * p - 1], IF 2 * p <= Len(s) THEN s[2 * p] ELSE zeroHashes[i - 1])
        BY <2>7, <4>1
      <4>5. N[i][p] = t[p]
        BY <2>6, <4>2, <4>3, <4>4
      <4> QED
        BY <3>2, <4>5
    <3>3. CASE ~(p <= Len(t))
      <4>1. ~(2 * p - 1 <= Len(s)) /\ ~(2 * p <= Len(s))
        BY <2>2, <2>7, <3>3
      <4>2. N[i - 1][2 * p - 1] = zeroHashes[i - 1] /\ N[i - 1][2 * p] = zeroHashes[i - 1]
        BY <2>5, <3>1, <4>1
      <4>3. N[i][p] = zeroHashes[i]
        BY <2>4, <2>6, <4>2
      <4> QED
        BY <3>3, <4>3
    <3> QED
      BY <3>2, <3>3
  <2> QED
    BY <2>1, <2>8 DEF t, w
<1> HIDE DEF S
<1>6. \A i \in 0..TREE_HEIGHT : i \in S
  BY <1>4, <1>5, AllLevels, MerkleAssumption
<1> QED
  BY <1>6 DEF S, L, N

\* For every height and any different ids, and however many they are.
LEMMA CompleteTree ==
    ASSUME NEW ids, IsLevel(ids), Distinct(ids), ids = <<>> <=> Len(ids) = 0
    PROVE  TreeIsComplete(ids)
<1> DEFINE t == levels(ids)[TREE_HEIGHT]
<1>1. TREE_HEIGHT \in 0..TREE_HEIGHT /\ TREE_HEIGHT - TREE_HEIGHT = 0
  BY MerkleAssumption
<1>2. IsLevel(t) /\ (Len(t) = 0 <=> Len(ids) = 0)
  BY <1>1, LevelsAre, LevelsEmpty
<1>3. width[0] = 1 /\ 1 \in 1..1
  BY Widths
<1>4. Nodes(ids)[TREE_HEIGHT][1] = IF 1 <= Len(t) THEN t[1] ELSE zeroHashes[TREE_HEIGHT]
  BY <1>1, <1>3, LevelsComplete
<1>5. getRoot(ids) = IF Len(ids) = 0 THEN zeroHashes[TREE_HEIGHT] ELSE t[1]
  BY DEF getRoot
<1> HIDE DEF t
<1>6. 1 <= Len(t) <=> Len(ids) # 0
  BY <1>2 DEF IsLevel
<1>7. getRoot(ids) = Nodes(ids)[TREE_HEIGHT][1]
  BY <1>4, <1>5, <1>6
<1> QED
  BY <1>7, PathOpensRoot DEF TreeIsComplete

\* The root of a full tree stays.
LEMMA FullRoot ==
    ASSUME NEW a, IsLevel(a), NEW b, IsLevel(b), Len(a) <= Len(b),
           \A i \in 1..Len(a) : a[i] = b[i],
           NEW place \in 1..Len(a), place > width[TREE_HEIGHT]
    PROVE  getRoot(b) = getRoot(a)
<1> DEFINE A == levels(a)
           B == levels(b)
           Same(i) == /\ Len(A[i]) <= Len(B[i])
                      /\ \A j \in 1..Len(A[i]) - 1 : A[i][j] = B[i][j]
           S == {i \in 0..TREE_HEIGHT : Same(i)}
<1>1. /\ A[0] = a /\ \A i \in 1..TREE_HEIGHT : A[i] = nextLevel(A[i - 1], i - 1)
      /\ B[0] = b /\ \A i \in 1..TREE_HEIGHT : B[i] = nextLevel(B[i - 1], i - 1)
  BY LevelStep
<1>2. \A i \in 0..TREE_HEIGHT : IsLevel(A[i]) /\ IsLevel(B[i])
  BY LevelsAre
<1>3. Len(A[TREE_HEIGHT]) >= 2
  <2> DEFINE x == halved(place - 1, TREE_HEIGHT)[TREE_HEIGHT]
  <2>1. place - 1 \in Nat /\ place \in Nat
    BY DEF IsLevel
  <2>2. x \in Nat /\ (x = 0 <=> place - 1 < width[TREE_HEIGHT]) /\ width[TREE_HEIGHT] \in Nat
    BY <2>1, HalvedWidths, Widths, MerkleAssumption
  <2>3. x + 1 \in 1..Len(A[TREE_HEIGHT])
    BY PathLeads
  <2>4. Len(A[TREE_HEIGHT]) \in Nat
    BY <1>2, MerkleAssumption DEF IsLevel
  <2> HIDE DEF x, A
  <2>5. x # 0
    BY <2>1, <2>2
  <2> QED
    BY <2>2, <2>3, <2>4, <2>5
<1> HIDE DEF A, B
<1>4. 0 \in S
  BY <1>1, MerkleAssumption DEF IsLevel
<1>5. ASSUME NEW i \in 1..TREE_HEIGHT, i - 1 \in S PROVE i \in S
  <2> DEFINE r == A[i - 1]
             s == B[i - 1]
             t == A[i]
             u == B[i]
  <2>1. /\ IsLevel(r) /\ IsLevel(s) /\ t = nextLevel(r, i - 1) /\ u = nextLevel(s, i - 1)
        /\ Len(r) <= Len(s) /\ \A j \in 1..Len(r) - 1 : r[j] = s[j]
    BY <1>1, <1>2, <1>5
  <2> HIDE DEF r, s, t, u
  <2>2. /\ Len(r) \in Nat /\ Len(t) = (Len(r) + 1) \div 2
        /\ \A j \in 1..Len(t) :
               t[j] = hash2(r[2 * j - 1], IF 2 * j <= Len(r) THEN r[2 * j] ELSE zeroHashes[i - 1])
    BY <2>1, Rounds DEF IsLevel
  <2>3. /\ Len(s) \in Nat /\ Len(u) = (Len(s) + 1) \div 2
        /\ \A j \in 1..Len(u) :
               u[j] = hash2(s[2 * j - 1], IF 2 * j <= Len(s) THEN s[2 * j] ELSE zeroHashes[i - 1])
    BY <2>1, Rounds DEF IsLevel
  <2>4. Len(t) \in Nat /\ Len(u) \in Nat /\ Len(t) <= Len(u)
    BY <2>1, <2>2, <2>3
  <2>5. ASSUME NEW j \in 1..Len(t) - 1 PROVE t[j] = u[j]
    <3>1. j \in 1..Len(t) /\ j \in 1..Len(u)
      BY <2>4
    <3>2. /\ 2 * j - 1 \in 1..Len(r) - 1 /\ 2 * j \in 1..Len(r) - 1
          /\ 2 * j <= Len(r) /\ 2 * j <= Len(s)
      BY <2>1, <2>2, <2>3, <2>4
    <3>3. r[2 * j - 1] = s[2 * j - 1] /\ r[2 * j] = s[2 * j]
      BY <2>1, <3>2
    <3> QED
      BY <2>2, <2>3, <3>1, <3>2, <3>3
  <2> QED
    BY <2>4, <2>5 DEF t, u
<1> HIDE DEF S
<1>6. \A i \in 0..TREE_HEIGHT : i \in S
  BY <1>4, <1>5, AllLevels, MerkleAssumption
<1>7. A[TREE_HEIGHT][1] = B[TREE_HEIGHT][1]
  <2>1. TREE_HEIGHT \in 0..TREE_HEIGHT /\ Len(A[TREE_HEIGHT]) \in Nat
    BY <1>2, MerkleAssumption DEF IsLevel
  <2>2. 1 \in 1..Len(A[TREE_HEIGHT]) - 1
    BY <1>3, <2>1
  <2> QED
    BY <1>6, <2>1, <2>2 DEF S
<1>8. a # <<>> /\ b # <<>>
  BY DEF IsLevel
<1> QED
  BY <1>7, <1>8 DEF getRoot, A, B

\* No identity is in the tree twice; the getProof under way has copied some of
\* the leaves, and its root, read later, is that of the copy if the leaf has no
\* place in the tree.
PathOf(call) ==
    /\ call.copied \in Seq(Member)
    /\ Distinct(call.copied)
    /\ call.place \in 1..Len(call.copied)
    /\ call.elements = pathElements(call.copied, call.place)

TreeInv ==
    /\ leaves \in Seq(Member)
    /\ Distinct(leaves)
    /\ path # NoProof =>
           /\ PathOf(path)
           /\ Len(path.copied) <= Len(leaves)
           /\ \A i \in 1..Len(path.copied) : path.copied[i] = leaves[i]
           /\ path.root # NoRoot /\ path.place > width[TREE_HEIGHT]
                  => path.root = getRoot(path.copied)

LEMMA SeqLevel ==
    ASSUME NEW s \in Seq(Member)
    PROVE  IsLevel(s) /\ (s = <<>> <=> Len(s) = 0)
BY EmptySeq DEF IsLevel

LEMMA TreeSteps ==
    ASSUME [Next]_vars
    PROVE  \/ UNCHANGED <<leaves, path>>
           \/ \E m \in Member : Insert(m)
           \/ StartProof \/ ReadRoot \/ \E g \in Group : Prove(g)
BY DEF Next, StartSend, ProveAsChecked, Consume, SendFails, Configure, RotateGroupKey,
       PostDirectMessage, PostBatch, PostWithProof, PostSend, ScanDirect, DirectThrows,
       OpenDirect, PassDirect, ScanGroups, GroupThrows, ScanEvent, CallFails, Throws, ScanReturns,
       Reload, vars, treeVars

LEMMA TreeStep == TreeInv /\ [Next]_vars => TreeInv'
<1> SUFFICES ASSUME TreeInv, [Next]_vars PROVE TreeInv'
  OBVIOUS
<1>1. CASE UNCHANGED <<leaves, path>>
  BY <1>1 DEF TreeInv
<1>2. ASSUME NEW m \in Member, Insert(m) PROVE TreeInv'
  <2> DEFINE len == Len(leaves)
  <2>1. leaves' = Append(leaves, m) /\ m \notin Range(leaves) /\ path' = path
    BY <1>2 DEF Insert, insert
  <2>2. leaves \in Seq(Member) /\ Distinct(leaves)
    BY DEF TreeInv
  <2>3. /\ leaves' \in Seq(Member) /\ len \in Nat /\ Len(leaves') = len + 1
        /\ leaves'[len + 1] = m /\ \A i \in 1..len : leaves'[i] = leaves[i]
        /\ DOMAIN leaves = 1..len
    BY <2>1, <2>2
  <2>4. \A i \in 1..len : leaves[i] # m
    BY <2>1, <2>3 DEF Range
  <2> HIDE DEF len
  <2>5. \A i, j \in 1..len : leaves[i] = leaves[j] => i = j
    BY <2>2 DEF Distinct, len
  <2>6. \A i \in 1..len + 1 : i \in 1..len \/ i = len + 1
    BY <2>3
  <2>7. \A i, j \in 1..len + 1 : leaves'[i] = leaves'[j] => i = j
    BY <2>3, <2>4, <2>5, <2>6
  <2>8. Distinct(leaves')
    BY <2>3, <2>7 DEF Distinct
  <2>9. ASSUME path # NoProof
        PROVE  /\ Len(path.copied) <= Len(leaves')
               /\ \A i \in 1..Len(path.copied) : path.copied[i] = leaves'[i]
    <3>1. /\ Len(path.copied) \in Nat /\ Len(path.copied) <= len
          /\ \A i \in 1..Len(path.copied) : path.copied[i] = leaves[i]
      BY <2>9 DEF TreeInv, PathOf, len
    <3>2. \A i \in 1..Len(path.copied) : i \in 1..len
      BY <2>3, <3>1
    <3> QED
      BY <2>3, <3>1, <3>2
  <2> QED
    BY <2>1, <2>3, <2>8, <2>9 DEF TreeInv
<1>3. CASE StartProof
  <2>1. PICK place \in DOMAIN leaves :
            path' = [place |-> place, elements |-> pathElements(leaves, place),
                     copied |-> leaves, root |-> NoRoot]
    BY <1>3 DEF StartProof
  <2>2. leaves \in Seq(Member) /\ Distinct(leaves) /\ leaves' = leaves
    BY <1>3 DEF TreeInv, StartProof
  <2>3. Len(leaves) \in Nat /\ DOMAIN leaves = 1..Len(leaves)
    BY <2>2
  <2>4. /\ path'.place = place /\ path'.elements = pathElements(leaves, place)
        /\ path'.copied = leaves /\ path'.root = NoRoot
    BY <2>1
  <2>5. PathOf(path')
    BY <2>2, <2>3, <2>4 DEF PathOf
  <2> QED
    BY <2>2, <2>3, <2>4, <2>5 DEF TreeInv
<1>4. CASE ReadRoot
  <2>1. /\ path # NoProof /\ leaves' = leaves
        /\ path' = [path EXCEPT !.root = getRoot(leaves)]
    BY <1>4 DEF ReadRoot
  <2>2. /\ path'.place = path.place /\ path'.elements = path.elements
        /\ path'.copied = path.copied
    BY <2>1
  <2>3. path'.root = getRoot(leaves) \/ path'.root = path.root
    BY <2>1
  <2>4. /\ PathOf(path) /\ Len(path.copied) <= Len(leaves) /\ leaves \in Seq(Member)
        /\ \A i \in 1..Len(path.copied) : path.copied[i] = leaves[i]
    BY <2>1 DEF TreeInv
  <2>5. ASSUME path.place > width[TREE_HEIGHT] PROVE getRoot(leaves) = getRoot(path.copied)
    BY <2>4, <2>5, SeqLevel, FullRoot DEF PathOf
  <2>6. PathOf(path')
    BY <2>2, <2>4 DEF PathOf
  <2>7. path'.root # NoRoot /\ path'.place > width[TREE_HEIGHT] => path'.root = getRoot(path'.copied)
    BY <2>1, <2>2, <2>3, <2>5 DEF TreeInv
  <2> QED
    BY <2>1, <2>2, <2>4, <2>6, <2>7 DEF TreeInv
<1>5. ASSUME NEW g \in Group, Prove(g) PROVE TreeInv'
  BY <1>5 DEF Prove, TreeInv
<1> QED
  BY <1>1, <1>2, <1>3, <1>4, <1>5, TreeSteps

LEMMA TreeAlways == Spec => []TreeInv
<1>1. Init => TreeInv
  BY DEF Init, TreeInv, Distinct
<1> QED
  BY <1>1, TreeStep, PTL DEF Spec

\* The tree is complete, for any height, any identities and any number of them,
\* more than it has places for included.
THEOREM TreeHolds == Spec => []TreeIsRight
<1>1. AnyTreeIsComplete
  <2> SUFFICES ASSUME NEW k \in 0..width[TREE_HEIGHT] + 1
               PROVE  TreeIsComplete([i \in 1..k |-> <<"leaf", i>>])
    BY DEF AnyTreeIsComplete
  <2> DEFINE s == [i \in 1..k |-> <<"leaf", i>>]
             X == {<<"leaf", i>> : i \in 1..k}
  <2>1. k \in Nat
    BY Widths, MerkleAssumption
  <2>2. s \in [1..k -> X]
    OBVIOUS
  <2>3. s \in Seq(X) /\ Len(s) = k /\ DOMAIN s = 1..k
    BY <2>1, <2>2
  <2>4. \A i \in 1..k : s[i] = <<"leaf", i>>
    OBVIOUS
  <2> HIDE DEF s, X
  <2>5. IsLevel(s) /\ (s = <<>> <=> Len(s) = 0)
    BY <2>1, <2>3, EmptySeq DEF IsLevel
  <2>6. Distinct(s)
    BY <2>3, <2>4 DEF Distinct
  <2>7. TreeIsComplete(s)
    BY <2>5, <2>6, CompleteTree
  <2> QED
    BY <2>7 DEF s
<1>2. TreeInv => TreeIsRight
  BY <1>1, SeqLevel, CompleteTree DEF TreeInv, TreeIsRight
<1> QED
  BY <1>2, TreeAlways, PTL

\* getProof gives a path that opens its root, unless identities were inserted
\* meanwhile, for every leaf that the tree has a place for, and for no other.
THEOREM PathHolds == Spec => []PathOpensUnlessInserted
<1>1. ASSUME TreeInv PROVE PathOpensUnlessInserted
  <2> SUFFICES ASSUME path # NoProof, path.root # NoRoot
               PROVE  PathOpens <=> /\ path.root = getRoot(path.copied)
                                    /\ path.place <= width[TREE_HEIGHT]
    BY DEF PathOpensUnlessInserted
  <2> DEFINE node == computeRoot(path.copied[path.place], path.elements, path.place - 1)
  <2>1. PathOf(path) /\ (path.place > width[TREE_HEIGHT] => path.root = getRoot(path.copied))
    BY <1>1 DEF TreeInv
  <2>2. node = getRoot(path.copied) <=> path.place <= width[TREE_HEIGHT]
    BY <2>1, SeqLevel, PathOpensRoot DEF PathOf, verify
  <2>3. PathOpens <=> node = path.root
    BY DEF PathOpens, Prover, verify
  <2>4. path.place > width[TREE_HEIGHT] <=> ~(path.place <= width[TREE_HEIGHT])
    BY <2>1, Widths, MerkleAssumption DEF PathOf
  <2> HIDE DEF node
  <2> QED
    BY <2>1, <2>2, <2>3, <2>4
<1> QED
  BY <1>1, TreeAlways, PTL
=============================================================================
