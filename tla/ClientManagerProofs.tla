------------------------ MODULE ClientManagerProofs ------------------------
(***************************************************************************)
(* Proofs about ClientManager, for every TIME_OUT, set of descriptors and  *)
(* bound on nodes, in v1's order and v2's, with the SIGALRM handler        *)
(* between any two steps.                                                  *)
(***************************************************************************)
EXTENDS ClientManager, TLAPS

\* Descriptors the event loop is not in the middle of an operation on.
Settled == {f \in Fds : op.kind \in Halves => f # op.fd}

\* An operation that will add a node of its descriptor has room for it.
RoomInv == op.kind \in {"add", "ready", "found", "update"} =>
               \A k \in Slots : slot[k][op.fd] < MaxNodes

\* The descriptor in hand is closed but may have an entry: del_client is about to take it
\* out, or update_client has made it again for an evicted client.
Leaving == op.kind \in {"closing", "del"} \/ (op.kind = "update" /\ op.old = Absent)

\* The map has the open descriptors, and perhaps the one in hand if it is closed.
MapInv == IF Leaving THEN Managed \ {op.fd} = open ELSE Managed = open

\* Everybody open has a node, but for the one add_client is about to push.
NodeInv == \A f \in open : f \in Settled => \E k \in Slots : slot[k][f] > 0

TableIInv == TypeOK /\ RoomInv /\ MapInv /\ NodeInv

\* Slots the wheel has turned since it stood at k.
Dist(k) == IF k <= cur_index THEN cur_index - k ELSE cur_index - k + TIME_OUT

\* Undisturbed, each settled descriptor has its one node; the nodes of the one in hand
\* are where the operation has found them.
ExactInv ==
    /\ \A k \in Slots : slot[k][Wild] = 0
    /\ \A f \in Settled, k \in Slots : slot[k][f] = IF index[f] = k THEN 1 ELSE 0
    /\ op.kind = "add" => \A k \in Slots : slot[k][op.fd] = 0
    /\ op.kind \in {"update", "del"} /\ op.old # Absent =>
          \A k \in Slots : slot[k][op.fd] = IF op.old = k THEN 1 ELSE 0
    /\ op.kind = "add" \/ (op.kind = "update" /\ op.old # Absent) =>
          index[op.fd] = cur_index /\ idle[op.fd] = 0
    /\ op.kind = "del" => index[op.fd] = op.old

\* The age of a client is the way the wheel has made since its slot, and the slots behind
\* the wheel are due the next time it comes to them.
AgeInv ==
    \A f \in open : /\ idle[f] = Dist(index[f])
                    /\ index[f] # cur_index => clean_flag[index[f]]

WheelIInv == TableIInv /\ (~cut => ExactInv /\ AgeInv)
-----------------------------------------------------------------------------
(* The wheel and its operations *)

\* The fields an operation has.
LEMMA OpFields ==
    ASSUME TypeOK
    PROVE  /\ NoOp.kind = "none" /\ Down.kind = "down" /\ NoOp # Down
           /\ \/ op = NoOp /\ op.kind = "none"
              \/ op = Down /\ op.kind = "down"
              \/ /\ op # NoOp /\ op # Down /\ op.fd \in Fds
                 /\ \/ op.kind \in {"add", "ready", "found", "run", "closing"}
                    \/ op.kind \in {"update", "del"} /\ op.old \in Slots \cup {Absent}
BY DEF TypeOK, NoOp, Down

\* The next slot, as tq_update_timer computes it.
LEMMA AdvanceValue ==
    ASSUME TypeOK
    PROVE  /\ Advance = IF cur_index = TIME_OUT - 1 THEN 0 ELSE cur_index + 1
           /\ Advance \in Slots
           /\ Advance # cur_index
<1>0. cur_index \in 0..(TIME_OUT - 1)
  BY DEF TypeOK, Slots
<1>1. CASE cur_index = TIME_OUT - 1
  BY <1>0, <1>1, WheelAssumption DEF Slots, Advance
<1>2. CASE cur_index # TIME_OUT - 1
  BY <1>0, <1>2, WheelAssumption DEF Slots, Advance
<1> QED
  BY <1>1, <1>2

\* The nodes of a number after set_add_node and set_del_node.
LEMMA AddNodeValue ==
    ASSUME NEW s \in [Slots -> [Numbers -> Int]], NEW k \in Slots, NEW n \in Numbers
    PROVE  /\ AddNode(s, k, n) \in [Slots -> [Numbers -> Int]]
           /\ \A j \in Slots, g \in Numbers :
                 AddNode(s, k, n)[j][g] = IF j = k /\ g = n THEN s[j][g] + 1 ELSE s[j][g]
BY DEF AddNode

LEMMA DelNodeValue ==
    ASSUME NEW s \in [Slots -> [Numbers -> Int]], NEW k \in Slots, NEW n \in Numbers
    PROVE  /\ DelNode(s, k, n) \in [Slots -> [Numbers -> Int]]
           /\ \A j \in Slots, g \in Numbers :
                 DelNode(s, k, n)[j][g] = IF j = k /\ g = n /\ s[j][g] > 0 THEN s[j][g] - 1
                                          ELSE s[j][g]
BY DEF DelNode

\* tq_update_conn: one node fewer in the old slot, if there was one, one more in the new.
LEMMA MoveNodeValue ==
    ASSUME NEW s \in [Slots -> [Numbers -> Int]], NEW i \in Slots, NEW k \in Slots,
           NEW n \in Numbers
    PROVE  LET t == AddNode(DelNode(s, i, n), k, n)
           IN  /\ t \in [Slots -> [Numbers -> Int]]
               /\ \A j \in Slots, g \in Numbers :
                     t[j][g] = IF g # n THEN s[j][g]
                               ELSE s[j][g] - (IF j = i /\ s[j][g] > 0 THEN 1 ELSE 0)
                                            + (IF j = k THEN 1 ELSE 0)
<1> DEFINE m == DelNode(s, i, n)
<1>1. /\ m \in [Slots -> [Numbers -> Int]]
      /\ \A j \in Slots, g \in Numbers :
            m[j][g] = IF j = i /\ g = n /\ s[j][g] > 0 THEN s[j][g] - 1 ELSE s[j][g]
  BY DelNodeValue
<1> HIDE DEF m
<1>2. /\ AddNode(m, k, n) \in [Slots -> [Numbers -> Int]]
      /\ \A j \in Slots, g \in Numbers :
            AddNode(m, k, n)[j][g] = IF j = k /\ g = n THEN m[j][g] + 1 ELSE m[j][g]
  BY <1>1, AddNodeValue
<1>3. ASSUME NEW j \in Slots, NEW g \in Numbers
      PROVE  AddNode(m, k, n)[j][g] = IF g # n THEN s[j][g]
                               ELSE s[j][g] - (IF j = i /\ s[j][g] > 0 THEN 1 ELSE 0)
                                            + (IF j = k THEN 1 ELSE 0)
  <2>1. s[j][g] \in Int /\ m[j][g] \in Int
    BY <1>1
  <2> QED
    BY <1>1, <1>2, <2>1
<1> QED
  BY <1>2, <1>3 DEF m

\* A function of slots and numbers is a wheel if its values are.
LEMMA WheelType ==
    ASSUME NEW s \in [Slots -> [Numbers -> Int]],
           \A k \in Slots, n \in Numbers : s[k][n] \in 0..MaxNodes
    PROVE  s \in [Slots -> [Numbers -> 0..MaxNodes]]
OBVIOUS

LEMMA SlotType == ASSUME TypeOK PROVE slot \in [Slots -> [Numbers -> Int]]
BY WheelAssumption DEF TypeOK

\* The empty table is one, whatever stands beside it.
LEMMA EmptyTable ==
    ASSUME index = NoEntries, slot = NoNodes, open = {}, op \in {NoOp, Down},
           idle = [f \in Fds |-> 0], cut \in BOOLEAN,
           cur_index \in Slots, clean_flag \in [Slots -> BOOLEAN]
    PROVE  WheelIInv
<1> USE WheelAssumption
<1>1. TypeOK
  <2>1. slot \in [Slots -> [Numbers -> 0..MaxNodes]]
    BY DEF NoNodes
  <2>2. idle \in [Fds -> 0..IdleCap] /\ index \in [Fds -> Slots \cup {Absent}]
    BY DEF IdleCap, NoEntries
  <2> QED
    BY <2>1, <2>2 DEF TypeOK
<1>2. op.kind \in {"none", "down"}
  BY <1>1, OpFields
<1>3. RoomInv /\ MapInv /\ NodeInv
  BY <1>2 DEF RoomInv, MapInv, Leaving, NodeInv, Managed, NoEntries
<1>4. Absent \notin Slots
  BY DEF Absent, Slots
<1>5. \A k \in Slots, n \in Numbers : slot[k][n] = 0
  BY DEF NoNodes
<1>6. \A f \in Fds : index[f] = Absent
  BY DEF NoEntries
<1>7. ExactInv /\ AgeInv
  BY <1>2, <1>4, <1>5, <1>6 DEF ExactInv, AgeInv, Settled, Numbers
<1> QED
  BY <1>1, <1>3, <1>7 DEF WheelIInv, TableIInv

LEMMA WheelInit == Init => WheelIInv
<1> SUFFICES ASSUME Init PROVE WheelIInv
  OBVIOUS
<1>1. cur_index \in Slots /\ clean_flag \in [Slots -> BOOLEAN]
  BY WheelAssumption DEF Init, Slots
<1> QED
  BY <1>1, EmptyTable DEF Init

\* A crash leaves nothing to be wrong.
LEMMA AfterSegfault == TypeOK /\ Segfault => WheelIInv'
<1> SUFFICES ASSUME TypeOK, Segfault PROVE WheelIInv'
  OBVIOUS
<1>1. /\ index' = NoEntries /\ slot' = NoNodes /\ open' = {} /\ op' \in {NoOp, Down}
      /\ idle' = [f \in Fds |-> 0] /\ cut' \in BOOLEAN
      /\ cur_index' \in Slots /\ clean_flag' \in [Slots -> BOOLEAN]
  BY DEF TypeOK, Segfault
<1>2. TypeOK'
  <2>1. slot' \in [Slots -> [Numbers -> 0..MaxNodes]]
    BY <1>1, WheelAssumption DEF NoNodes
  <2>2. idle' \in [Fds -> 0..IdleCap] /\ index' \in [Fds -> Slots \cup {Absent}]
    BY <1>1, WheelAssumption DEF IdleCap, NoEntries
  <2> QED
    BY <1>1, <2>1, <2>2 DEF TypeOK
<1>3. op'.kind = "down"
  BY DEF Segfault, Down
<1>4. RoomInv' /\ MapInv' /\ NodeInv'
  BY <1>1, <1>3 DEF RoomInv, MapInv, Leaving, NodeInv, Managed, NoEntries
<1>5. Absent \notin Slots
  BY DEF Absent, Slots
<1>6. /\ \A k \in Slots, n \in Numbers : slot'[k][n] = 0
      /\ \A f \in Fds : index'[f] = Absent
  BY <1>1 DEF NoNodes, NoEntries
<1>7. ExactInv' /\ AgeInv'
  BY <1>1, <1>3, <1>5, <1>6 DEF ExactInv, AgeInv, Settled, Numbers
<1> QED
  BY <1>2, <1>4, <1>7 DEF WheelIInv, TableIInv

\* Every step of the event loop and of the handler keeps the table.
LEMMA TableNext == TableIInv /\ [Next]_vars => TableIInv'
<1> SUFFICES ASSUME TableIInv, [Next]_vars PROVE TableIInv'
  OBVIOUS
<1> USE WheelAssumption
<1>a. TypeOK /\ RoomInv /\ MapInv /\ NodeInv
  BY DEF TableIInv
<1>b. /\ cur_index \in Slots /\ open \subseteq Fds /\ cut \in BOOLEAN
      /\ slot \in [Slots -> [Numbers -> 0..MaxNodes]]
      /\ clean_flag \in [Slots -> BOOLEAN]
      /\ index \in [Fds -> Slots \cup {Absent}]
      /\ idle \in [Fds -> 0..IdleCap]
  BY <1>a DEF TypeOK
<1>o. /\ NoOp.kind = "none" /\ Down.kind = "down" /\ NoOp # Down
      /\ \/ op = NoOp /\ op.kind = "none"
         \/ op = Down /\ op.kind = "down"
         \/ /\ op # NoOp /\ op # Down /\ op.fd \in Fds
            /\ \/ op.kind \in {"add", "ready", "found", "run", "closing"}
               \/ op.kind \in {"update", "del"} /\ op.old \in Slots \cup {Absent}
  BY <1>a, OpFields
<1>s. /\ Absent \notin Slots /\ Fds \subseteq Numbers /\ Wild \in Numbers /\ Wild \notin Fds
      /\ \A k \in Slots, n \in Numbers : slot[k][n] \in 0..MaxNodes
      /\ slot \in [Slots -> [Numbers -> Int]]
  <2>1. Absent \notin Slots
    BY DEF Slots, Absent
  <2>2. Fds \subseteq Numbers /\ Wild \in Numbers /\ Wild \notin Fds
    BY DEF Numbers
  <2> QED
    BY <1>a, <1>b, <2>1, <2>2, SlotType
<1>i. 0 \in 0..IdleCap
  BY DEF IdleCap
<1>n. /\ Managed \subseteq Fds /\ \A f \in Fds : f \in Managed <=> index[f] # Absent
      /\ open \subseteq Managed
  BY <1>a, <1>b DEF Managed, MapInv
<1>e. ASSUME Segfault PROVE TableIInv'
  BY <1>a, <1>e, AfterSegfault DEF WheelIInv
<1>1. ASSUME NEW f \in Fds, AddClient(f) PROVE TableIInv'
  <2>1. /\ op'.kind = "add" /\ op'.fd = f /\ op' # NoOp
        /\ op' \in [kind : {"add", "ready", "found", "run", "closing"}, fd : Fds]
        /\ op = NoOp /\ op.kind = "none"
        /\ UNCHANGED <<cur_index, slot, clean_flag, cut>>
    BY <1>1, <1>o DEF AddClient, NoOp
  <2>2. TypeOK'
    BY <1>1, <1>b, <1>i, <2>1 DEF AddClient, HashmapPut, TypeOK
  <2>3. RoomInv'
    BY <1>1, <2>1 DEF AddClient, RoomFor, RoomInv
  <2>4. MapInv'
    BY <1>1, <1>a, <1>b, <1>s, <2>1 DEF AddClient, HashmapPut, MapInv, Leaving, Managed
  <2>5. NodeInv'
    BY <1>1, <1>a, <2>1 DEF AddClient, NodeInv, Settled, Halves
  <2> QED
    BY <2>2, <2>3, <2>4, <2>5 DEF TableIInv
<1>2. CASE TqPush
  <2>1. op.kind = "add" /\ op.fd \in Fds /\ op' = NoOp /\ op'.kind = "none"
    BY <1>2, <1>o DEF TqPush
  <2>2. /\ slot' \in [Slots -> [Numbers -> Int]]
        /\ \A j \in Slots, g \in Numbers :
              slot'[j][g] = IF j = cur_index /\ g = op.fd THEN slot[j][g] + 1 ELSE slot[j][g]
    <3>1. slot' = AddNode(slot, cur_index, op.fd)
      BY <1>2 DEF TqPush
    <3>2. slot \in [Slots -> [Numbers -> Int]] /\ cur_index \in Slots /\ op.fd \in Numbers
      BY <1>b, <1>s, <2>1
    <3> QED
      BY ONLY <3>1, <3>2, AddNodeValue
  <2>3. \A j \in Slots, g \in Numbers : slot'[j][g] \in 0..MaxNodes
    <3> SUFFICES ASSUME NEW j \in Slots, NEW g \in Numbers PROVE slot'[j][g] \in 0..MaxNodes
      OBVIOUS
    <3>1. g = op.fd => slot[j][g] < MaxNodes
      BY <1>a, <2>1 DEF RoomInv
    <3>2. slot[j][g] \in 0..MaxNodes
      BY <1>s
    <3>3. slot'[j][g] = IF j = cur_index /\ g = op.fd THEN slot[j][g] + 1 ELSE slot[j][g]
      BY <2>2
    <3> QED
      BY <3>1, <3>2, <3>3
  <2>4. slot' \in [Slots -> [Numbers -> 0..MaxNodes]]
    BY <2>2, <2>3, WheelType
  <2>5. TypeOK'
    BY <1>2, <1>b, <2>1, <2>4 DEF TqPush, TypeOK
  <2>6. RoomInv' /\ MapInv'
    BY <1>2, <1>a, <2>1 DEF TqPush, RoomInv, MapInv, Leaving, Managed
  <2>7. NodeInv'
    <3> SUFFICES ASSUME NEW f \in open PROVE \E k \in Slots : slot'[k][f] > 0
      BY <1>2 DEF TqPush, NodeInv
    <3>0. f \in Fds /\ f \in Numbers
      BY <1>b, <1>s
    <3>1. CASE f = op.fd
      <4>1. slot'[cur_index][f] = slot[cur_index][f] + 1 /\ slot[cur_index][f] \in 0..MaxNodes
        BY <3>0, <3>1, <1>b, <1>s, <2>2
      <4> QED
        BY <4>1, <1>b
    <3>2. CASE f # op.fd
      <4>1. PICK k \in Slots : slot[k][f] > 0
        BY <3>0, <3>2, <1>a DEF NodeInv, Settled
      <4>2. slot'[k][f] = slot[k][f]
        BY <3>0, <3>2, <2>2
      <4> QED
        BY <4>1, <4>2
    <3> QED
      BY <3>1, <3>2
  <2> QED
    BY <2>5, <2>6, <2>7 DEF TableIInv
<1>3. ASSUME NEW f \in Fds, EpollWait(f) PROVE TableIInv'
  <2>1. /\ op'.kind = "ready" /\ op'.fd = f
        /\ op' \in [kind : {"add", "ready", "found", "run", "closing"}, fd : Fds]
        /\ op = NoOp /\ op.kind = "none"
        /\ UNCHANGED <<cur_index, slot, clean_flag, index, open, idle, cut>>
    BY <1>3, <1>o DEF EpollWait
  <2>2. TypeOK'
    BY <1>b, <2>1 DEF TypeOK
  <2>3. RoomInv'
    BY <1>3, <2>1 DEF EpollWait, RoomFor, RoomInv
  <2>4. MapInv' /\ NodeInv'
    BY <1>a, <2>1 DEF MapInv, Leaving, Managed, NodeInv, Settled, Halves
  <2> QED
    BY <2>2, <2>3, <2>4 DEF TableIInv
\* The loop goes on with the descriptor it has in hand.
<1>4. ASSUME op.kind \in {"ready", "found", "run"},
             \/ op' = NoOp
             \/ op.kind = "ready" /\ op' = [kind |-> "found", fd |-> op.fd],
             UNCHANGED <<cur_index, slot, clean_flag, index, open, idle, cut>>
      PROVE  TableIInv'
  <2>1. op.fd \in Fds
    BY <1>4, <1>o
  <2>2. \/ op' = NoOp /\ op'.kind = "none"
        \/ /\ op.kind = "ready" /\ op'.kind = "found" /\ op'.fd = op.fd
           /\ op' \in [kind : {"add", "ready", "found", "run", "closing"}, fd : Fds]
    BY <1>4, <1>o, <2>1
  <2>3. TypeOK'
    BY <1>4, <1>b, <2>2 DEF TypeOK
  <2>4. RoomInv'
    BY <1>4, <1>a, <2>2 DEF RoomInv
  <2>5. MapInv'
    BY <1>4, <1>a, <2>2 DEF MapInv, Leaving, Managed
  <2>6. NodeInv'
    BY <1>4, <1>a, <2>2 DEF NodeInv, Settled, Halves
  <2> QED
    BY <2>3, <2>4, <2>5, <2>6 DEF TableIInv
<1>5. CASE GetCurClient
  BY <1>4, <1>5, <1>e DEF GetCurClient
<1>6. CASE UpdateClient
  <2>0. op.kind = "found" /\ op.fd \in Fds /\ ~Leaving
    BY <1>6, <1>o DEF UpdateClient, Leaving
  <2>1. /\ op'.kind = "update" /\ op'.fd = op.fd /\ op'.old = index[op.fd] /\ op' # NoOp
        /\ op' \in [kind : {"update", "del"}, fd : Fds, old : Slots \cup {Absent}]
        /\ UNCHANGED <<cur_index, slot, clean_flag, open, cut>>
    BY <1>6, <1>b, <2>0 DEF UpdateClient, NoOp
  <2>2. /\ index' \in [Fds -> Slots \cup {Absent}]
        /\ \A g \in Fds : g # op.fd => index'[g] = index[g]
        /\ index[op.fd] # Absent => index'[op.fd] # Absent
    BY <1>6, <1>b, <1>n, <1>s, <2>0 DEF UpdateClient, HashmapPut, Freed
  <2>3. TypeOK'
    BY <1>6, <1>b, <1>i, <2>0, <2>1, <2>2 DEF UpdateClient, TypeOK
  <2>4. RoomInv'
    BY <1>a, <2>0, <2>1 DEF RoomInv
  <2>5. MapInv'
    <3>1. Managed = open
      BY <1>a, <2>0 DEF MapInv
    <3>2. /\ Managed' \subseteq Fds
          /\ \A g \in Fds : g \in Managed' <=> index'[g] # Absent
      BY DEF Managed
    <3>3. Leaving' <=> index[op.fd] = Absent
      BY <2>1 DEF Leaving
    <3>4. CASE index[op.fd] = Absent
      BY <3>1, <3>2, <3>3, <3>4, <1>n, <2>0, <2>1, <2>2 DEF MapInv
    <3>5. CASE index[op.fd] # Absent
      BY <3>1, <3>2, <3>3, <3>5, <1>n, <2>0, <2>1, <2>2 DEF MapInv
    <3> QED
      BY <3>4, <3>5
  <2>6. NodeInv'
    BY <1>a, <1>b, <2>0, <2>1 DEF NodeInv, Settled, Halves
  <2> QED
    BY <2>3, <2>4, <2>5, <2>6 DEF TableIInv
<1>7. CASE TqUpdateConn
  <2>1. op.kind = "update" /\ op.fd \in Fds /\ op.fd \in Numbers
    BY <1>7, <1>o, <1>s DEF TqUpdateConn
  <2>2. CASE op.old = Absent /\ Segfault
    BY <2>2, <1>e
  <2>3. CASE op.old # Absent /\ op' = [kind |-> "run", fd |-> op.fd]
             /\ UNCHANGED <<cur_index, clean_flag, index, open, idle, cut>>
    <3>1. /\ op'.kind = "run" /\ op'.fd = op.fd /\ op.old \in Slots /\ ~Leaving
          /\ op' \in [kind : {"add", "ready", "found", "run", "closing"}, fd : Fds]
      BY <1>o, <2>1, <2>3 DEF Leaving
    <3>2. RoomInv' /\ MapInv' /\ Managed = open
      BY <1>a, <2>3, <3>1 DEF RoomInv, MapInv, Leaving, Managed
    <3>3. CASE slot' = AddNode(DelNode(slot, op.old, op.fd), cur_index, op.fd)
      <4>1. /\ slot' \in [Slots -> [Numbers -> Int]]
            /\ \A j \in Slots, g \in Numbers :
                  slot'[j][g] = IF g # op.fd THEN slot[j][g]
                                ELSE slot[j][g] - (IF j = op.old /\ slot[j][g] > 0 THEN 1 ELSE 0)
                                                + (IF j = cur_index THEN 1 ELSE 0)
        <5>1. /\ slot \in [Slots -> [Numbers -> Int]] /\ op.old \in Slots
              /\ cur_index \in Slots /\ op.fd \in Numbers
          BY <1>b, <1>s, <2>1, <3>1
        <5> QED
          BY ONLY <3>3, <5>1, MoveNodeValue
      <4>2. ASSUME NEW j \in Slots, NEW g \in Numbers PROVE slot'[j][g] \in 0..MaxNodes
        <5>1. g = op.fd => slot[j][g] < MaxNodes
          BY <1>a, <2>1 DEF RoomInv
        <5>2. slot[j][g] \in 0..MaxNodes
          BY <1>s
        <5> QED
          BY <4>1, <5>1, <5>2
      <4>3. slot' \in [Slots -> [Numbers -> 0..MaxNodes]]
        BY <4>1, <4>2, WheelType
      <4>4. TypeOK'
        BY <1>b, <2>3, <3>1, <4>3 DEF TypeOK
      <4>5. ASSUME NEW f \in open PROVE \E k \in Slots : slot'[k][f] > 0
        <5>0. f \in Fds /\ f \in Numbers
          BY <1>b, <1>s
        <5>1. CASE f = op.fd
          <6>1. slot[cur_index][f] \in 0..MaxNodes
            BY <1>b, <1>s, <5>0
          <6>2. slot'[cur_index][f] > 0
            BY <1>b, <4>1, <5>0, <5>1, <6>1
          <6> QED
            BY <1>b, <6>2
        <5>2. CASE f # op.fd
          <6>1. PICK k \in Slots : slot[k][f] > 0
            BY <5>0, <5>2, <1>a DEF NodeInv, Settled
          <6>2. slot'[k][f] = slot[k][f]
            BY <5>0, <5>2, <4>1
          <6> QED
            BY <6>1, <6>2
        <5> QED
          BY <5>1, <5>2
      <4> QED
        BY <2>3, <3>2, <4>4, <4>5 DEF TableIInv, NodeInv
    <3>4. CASE Freed /\ RoomForWild /\ slot' = AddNode(slot, cur_index, Wild)
      <4>1. /\ slot' \in [Slots -> [Numbers -> Int]]
            /\ \A j \in Slots, g \in Numbers :
                  slot'[j][g] = IF j = cur_index /\ g = Wild THEN slot[j][g] + 1 ELSE slot[j][g]
        BY <3>4, <1>b, <1>s, AddNodeValue
      <4>2. ASSUME NEW j \in Slots, NEW g \in Numbers PROVE slot'[j][g] \in 0..MaxNodes
        <5>1. g = Wild => slot[j][g] = 0
          BY <3>4 DEF RoomForWild
        <5>2. slot[j][g] \in 0..MaxNodes
          BY <1>s
        <5> QED
          BY <4>1, <5>1, <5>2
      <4>3. slot' \in [Slots -> [Numbers -> 0..MaxNodes]]
        BY <4>1, <4>2, WheelType
      <4>4. TypeOK'
        BY <1>b, <2>3, <3>1, <4>3 DEF TypeOK
      <4>5. ASSUME NEW f \in open PROVE \E k \in Slots : slot'[k][f] > 0
        <5>0. f \in Fds /\ f \in Numbers /\ f # op.fd /\ f # Wild
          BY <1>b, <1>s, <3>2, <3>4 DEF Freed
        <5>1. PICK k \in Slots : slot[k][f] > 0
          BY <5>0, <1>a DEF NodeInv, Settled
        <5>2. slot'[k][f] = slot[k][f]
          BY <5>0, <4>1
        <5> QED
          BY <5>1, <5>2
      <4> QED
        BY <2>3, <3>2, <4>4, <4>5 DEF TableIInv, NodeInv
    <3> QED
      BY <1>7, <2>3, <3>3, <3>4 DEF TqUpdateConn, Segfault, Down
  <2> QED
    BY <1>7, <2>2, <2>3 DEF TqUpdateConn
<1>8. CASE Finish
  BY <1>4, <1>8 DEF Finish
<1>9. CASE Close
  <2>0. op.kind \in {"found", "run"} /\ op.fd \in Fds /\ ~Leaving
    BY <1>9, <1>o DEF Close, Leaving
  <2>1. /\ op'.kind = "closing" /\ op'.fd = op.fd
        /\ op' \in [kind : {"add", "ready", "found", "run", "closing"}, fd : Fds]
        /\ open' = open \ {op.fd} /\ idle' = [idle EXCEPT ![op.fd] = 0]
        /\ UNCHANGED <<cur_index, slot, clean_flag, index, cut>>
    BY <1>9, <2>0 DEF Close
  <2>2. TypeOK'
    BY <1>b, <1>i, <2>1 DEF TypeOK
  <2>3. RoomInv'
    BY <2>1 DEF RoomInv
  <2>4. MapInv'
    BY <1>a, <2>0, <2>1 DEF MapInv, Leaving, Managed
  <2>5. NodeInv'
    BY <1>a, <2>0, <2>1 DEF NodeInv, Settled, Halves
  <2> QED
    BY <2>2, <2>3, <2>4, <2>5 DEF TableIInv
<1>10. CASE DelClient
  <2>0. op.kind = "closing" /\ op.fd \in Fds /\ Leaving
    BY <1>10, <1>o DEF DelClient, Leaving
  <2>1. /\ op'.kind = "del" /\ op'.fd = op.fd
        /\ op' \in [kind : {"update", "del"}, fd : Fds, old : Slots \cup {Absent}]
        /\ UNCHANGED <<cur_index, slot, clean_flag, index, open, idle, cut>>
    BY <1>10, <1>b, <2>0 DEF DelClient
  <2>2. TypeOK'
    BY <1>b, <2>1 DEF TypeOK
  <2>3. RoomInv'
    BY <2>1 DEF RoomInv
  <2>4. MapInv'
    BY <1>a, <2>0, <2>1 DEF MapInv, Leaving, Managed
  <2>5. NodeInv'
    BY <1>a, <2>0, <2>1 DEF NodeInv, Settled, Halves
  <2> QED
    BY <2>2, <2>3, <2>4, <2>5 DEF TableIInv
<1>11. CASE TqPop
  <2>1. op.kind = "del" /\ op.fd \in Fds /\ op.fd \in Numbers /\ Leaving
    BY <1>11, <1>o, <1>s DEF TqPop, Leaving
  <2>2. CASE op.old = Absent /\ Segfault
    BY <2>2, <1>e
  <2>3. CASE /\ op.old # Absent
             /\ \/ slot' = DelNode(slot, op.old, op.fd) /\ UNCHANGED cut
                \/ (FreesFirst \/ Freed) /\ slot' = slot /\ cut' = TRUE
             /\ HashmapDelete({op.fd})
             /\ op' = NoOp
             /\ UNCHANGED <<cur_index, clean_flag, open, idle>>
    <3>1. op.old \in Slots /\ op'.kind = "none" /\ cut' \in BOOLEAN
      BY <1>b, <1>o, <2>1, <2>3
    <3>2. /\ slot' \in [Slots -> [Numbers -> Int]]
          /\ \A j \in Slots, g \in Numbers :
                slot'[j][g] = slot[j][g] \/ (g = op.fd /\ slot[j][g] > 0 /\ slot'[j][g] = slot[j][g] - 1)
      <4>1. CASE slot' = slot
        BY <4>1, <1>s
      <4>2. CASE slot' = DelNode(slot, op.old, op.fd)
        BY <4>2, <1>s, <2>1, <3>1, DelNodeValue
      <4> QED
        BY <2>3, <4>1, <4>2
    <3>3. ASSUME NEW j \in Slots, NEW g \in Numbers PROVE slot'[j][g] \in 0..MaxNodes
      <4>1. slot[j][g] \in 0..MaxNodes
        BY <1>s
      <4> QED
        BY <3>2, <4>1
    <3>4. slot' \in [Slots -> [Numbers -> 0..MaxNodes]]
      BY <3>2, <3>3, WheelType
    <3>5. TypeOK'
      BY <1>b, <2>3, <3>1, <3>4 DEF HashmapDelete, TypeOK
    <3>6. RoomInv'
      BY <3>1 DEF RoomInv
    <3>7. MapInv'
      BY <1>a, <1>b, <2>1, <2>3, <3>1 DEF HashmapDelete, MapInv, Leaving, Managed
    <3>8. NodeInv'
      <4> SUFFICES ASSUME NEW f \in open PROVE \E k \in Slots : slot'[k][f] > 0
        BY <2>3 DEF NodeInv
      <4>1. f \in Fds /\ f \in Numbers /\ f # op.fd
        BY <1>a, <1>b, <1>s, <2>1 DEF MapInv
      <4>2. PICK k \in Slots : slot[k][f] > 0
        BY <4>1, <1>a DEF NodeInv, Settled
      <4>3. slot'[k][f] = slot[k][f]
        BY <4>1, <3>2
      <4> QED
        BY <4>2, <4>3
    <3> QED
      BY <3>5, <3>6, <3>7, <3>8 DEF TableIInv
  <2> QED
    BY <1>11, <2>2, <2>3 DEF TqPop
<1>t. Advance \in Slots
  BY <1>a, AdvanceValue
\* A tick takes the descriptors of E out of the map and closes them; the nodes of the
\* others, as far as they are open, stay.
<1>12. ASSUME NEW E \in SUBSET Managed, Evict(E),
             slot' \in [Slots -> [Numbers -> Int]],
             \A j \in Slots, g \in Numbers : slot'[j][g] \in 0..slot[j][g],
             \A j \in Slots, g \in open \ E : slot'[j][g] = slot[j][g],
             cur_index' = Advance, clean_flag' \in [Slots -> BOOLEAN],
             cut' = (cut \/ op.kind \in Halves), UNCHANGED op
      PROVE  TableIInv'
  <2>1. ASSUME NEW j \in Slots, NEW g \in Numbers PROVE slot'[j][g] \in 0..MaxNodes
    BY <1>12, <1>s
  <2>2. slot' \in [Slots -> [Numbers -> 0..MaxNodes]]
    BY <1>12, <2>1, WheelType
  <2>3. idle' \in [Fds -> 0..IdleCap]
    <3>1. idle' = [f \in Fds |-> IF f \in open \ E THEN Older(idle[f]) ELSE 0]
      BY <1>12 DEF Evict
    <3>2. \A f \in Fds : Older(idle[f]) \in 0..IdleCap
      BY <1>b DEF Older, IdleCap
    <3> QED
      BY <1>i, <3>1, <3>2
  <2>4. TypeOK'
    BY <1>12, <1>a, <1>b, <1>t, <2>2, <2>3 DEF Evict, HashmapDelete, TypeOK
  <2>5. RoomInv'
    <3> SUFFICES ASSUME op.kind \in {"add", "ready", "found", "update"}, NEW k \in Slots
                 PROVE  slot'[k][op.fd] < MaxNodes
      BY <1>12 DEF RoomInv
    <3>1. op.fd \in Numbers /\ slot[k][op.fd] < MaxNodes
      BY <1>a, <1>o, <1>s DEF RoomInv
    <3>2. slot[k][op.fd] \in 0..MaxNodes /\ slot'[k][op.fd] \in 0..slot[k][op.fd]
      BY <1>12, <1>s, <3>1
    <3> QED
      BY <3>1, <3>2
  <2>6. MapInv'
    <3>1. \A f \in Fds : f \in Managed' <=> (f \in Managed /\ f \notin E)
      BY <1>12, <1>n DEF Evict, HashmapDelete, Managed
    <3>2. Managed' = Managed \ E /\ open' = open \ E /\ (Leaving' <=> Leaving)
      BY <1>12, <1>n, <3>1 DEF Evict, Managed, Leaving
    <3> QED
      BY <1>12, <1>a, <3>2 DEF MapInv
  <2>7. NodeInv'
    BY <1>12, <1>a DEF Evict, NodeInv, Settled
  <2> QED
    BY <2>4, <2>5, <2>6, <2>7 DEF TableIInv
<1>13. CASE Tick
  <2>1. Due \in SUBSET Managed
    BY <1>13 DEF Tick
  <2>2. slot' = [slot EXCEPT ![Advance] =
                   [n \in Numbers |-> IF n \in Due THEN 0 ELSE slot[Advance][n]]]
    BY <1>13 DEF Tick
  <2>3. slot' \in [Slots -> [Numbers -> Int]]
    BY <1>s, <1>t, <2>2
  <2>4. /\ \A j \in Slots, g \in Numbers : slot'[j][g] \in 0..slot[j][g]
        /\ \A j \in Slots, g \in open \ Due : slot'[j][g] = slot[j][g]
    BY <1>b, <1>s, <1>t, <2>2
  <2>5. clean_flag' \in [Slots -> BOOLEAN]
    BY <1>13, <1>b, <1>t DEF Tick
  <2> QED
    BY <1>12, <1>13, <2>1, <2>3, <2>4, <2>5 DEF Tick
<1>14. CASE TickGivesUp
  <2>1. PICK E \in SUBSET (Due \cap Managed), g \in Due :
           /\ g \notin Managed \/ (g \in E /\ slot[Advance][g] > 1)
           /\ Evict(E)
           /\ slot' = [slot EXCEPT ![Advance] =
                          [n \in Numbers |-> slot[Advance][n]
                                               - (IF n \in E THEN 1 ELSE 0)
                                               - (IF n = g THEN 1 ELSE 0)]]
    BY <1>14 DEF TickGivesUp
  <2>2. \A n \in Due : n \in Numbers /\ slot[Advance][n] > 0
    BY DEF Due, Members
  <2>3. slot' \in [Slots -> [Numbers -> Int]]
    BY <1>s, <1>t, <2>1
  <2>4. g \notin open \ E
    BY <1>n, <2>1
  <2>5. \A j \in Slots, n \in Numbers :
           slot'[j][n] = IF j = Advance
                         THEN slot[j][n] - (IF n \in E THEN 1 ELSE 0) - (IF n = g THEN 1 ELSE 0)
                         ELSE slot[j][n]
    BY <1>s, <1>t, <2>1
  <2>6. ASSUME NEW j \in Slots, NEW n \in Numbers PROVE slot'[j][n] \in 0..slot[j][n]
    <3>1. slot[j][n] \in 0..MaxNodes
      BY <1>s
    <3>2. j = Advance => /\ n \in E => slot[j][n] > 0
                         /\ n = g => slot[j][n] > 0
                         /\ n \in E /\ n = g => slot[j][n] > 1
      BY <2>1, <2>2
    <3> QED
      BY <2>5, <3>1, <3>2
  <2>7. \A j \in Slots, n \in open \ E : slot'[j][n] = slot[j][n]
    BY <1>b, <1>s, <2>4, <2>5
  <2>8. clean_flag' \in [Slots -> BOOLEAN]
    BY <1>14, <1>b DEF TickGivesUp
  <2> QED
    BY <1>12, <1>14, <2>1, <2>3, <2>6, <2>7, <2>8 DEF TickGivesUp
<1>15. CASE UNCHANGED vars
  BY <1>a, <1>15
  DEF vars, TableIInv, TypeOK, RoomInv, MapInv, Leaving, NodeInv, Settled, Managed
<1> QED
  BY <1>1, <1>2, <1>3, <1>5, <1>6, <1>7, <1>8, <1>9, <1>10, <1>11, <1>13, <1>14, <1>15
  DEF Next, LoopStep

\* The table with its strengthening, for every behaviour.
LEMMA TableIInvHolds == Spec => []TableIInv
<1>1. Init => TableIInv
  BY WheelInit DEF WheelIInv
<1> QED
  BY <1>1, TableNext, PTL DEF Spec

\* Whatever the handler cuts into, and whomever it evicts between get_cur_client and the
\* use of its result, outside an operation the hash map has exactly the open clients, and
\* each of them is in some slot of the wheel, as long as the server is up.
THEOREM TableCorrect == Spec => []TableInv
<1>1. TableIInv => TableInv
  BY OpFields DEF TableIInv, TableInv, MapInv, Leaving, NodeInv, Settled, Halves, MappedIffOpen,
                  NobodyForgotten, TypeOK
<1> QED
  BY <1>1, TableIInvHolds, PTL
-----------------------------------------------------------------------------
(* Map and wheel, as long as no tick falls inside an operation *)

\* How far behind the wheel a slot is.
LEMMA DistValue ==
    ASSUME TypeOK, NEW k \in Slots
    PROVE  Dist(k) \in 0..(TIME_OUT - 1) /\ Dist(cur_index) = 0 /\ Dist(Advance) = TIME_OUT - 1
<1>1. cur_index \in 0..(TIME_OUT - 1) /\ k \in 0..(TIME_OUT - 1)
  BY DEF TypeOK, Slots
<1>2. Advance = IF cur_index = TIME_OUT - 1 THEN 0 ELSE cur_index + 1
  BY AdvanceValue
<1> QED
  BY <1>1, <1>2, WheelAssumption DEF Dist

\* A tick takes every slot but the one it reaches one further away.
LEMMA DistTick ==
    ASSUME TypeOK, NEW k \in Slots, k # Advance, cur_index' = Advance
    PROVE  Dist(k)' = Dist(k) + 1
<1>1. cur_index \in 0..(TIME_OUT - 1) /\ k \in 0..(TIME_OUT - 1)
  BY DEF TypeOK, Slots
<1>2. Advance = IF cur_index = TIME_OUT - 1 THEN 0 ELSE cur_index + 1
  BY AdvanceValue
<1> QED
  BY <1>1, <1>2, WheelAssumption DEF Dist

\* A tick that is not inside an operation finds every due number in the map, once, and
\* takes every open client out of the slot it reaches.
LEMMA DueExact ==
    ASSUME TableIInv, ExactInv, AgeInv, op.kind \notin Halves
    PROVE  /\ \A n \in Due : n \in Managed /\ slot[Advance][n] = 1 /\ index[n] = Advance
           /\ \A f \in open : index[f] = Advance => f \in Due
<1>1. TypeOK /\ open \subseteq Managed /\ open \subseteq Fds
  BY DEF TableIInv, MapInv, TypeOK
<1>2. Advance \in Slots /\ Advance # cur_index
  BY <1>1, AdvanceValue
<1>3. \A f \in Fds : slot[Advance][f] = IF index[f] = Advance THEN 1 ELSE 0
  BY <1>2 DEF ExactInv, Settled
<1>4. Advance # Absent
  BY <1>2 DEF Slots, Absent
<1>5. ASSUME NEW n \in Due
      PROVE  n \in Managed /\ slot[Advance][n] = 1 /\ index[n] = Advance
  <2>1. n \in Numbers /\ slot[Advance][n] > 0
    BY DEF Due, Members
  <2>2. n \in Fds
    BY <1>2, <2>1 DEF ExactInv, Numbers
  <2>3. index[n] = Advance
    BY <1>3, <2>1, <2>2
  <2> QED
    BY <1>3, <1>4, <2>2, <2>3 DEF Managed
<1>6. ASSUME NEW f \in open, index[f] = Advance PROVE f \in Due
  <2>1. clean_flag[Advance] /\ slot[Advance][f] = 1 /\ f \in Numbers
    BY <1>1, <1>2, <1>3, <1>6 DEF AgeInv, Numbers
  <2> QED
    BY <2>1 DEF Due, Members
<1> QED
  BY <1>5, <1>6

\* The exact agreement of map, wheel and ages is kept until a tick cuts.
LEMMA WheelNext == WheelIInv /\ [Next]_vars => WheelIInv'
<1> SUFFICES ASSUME WheelIInv, [Next]_vars, ~cut' PROVE ExactInv' /\ AgeInv'
  BY TableNext DEF WheelIInv
<1> USE WheelAssumption
<1>a. TableIInv /\ TypeOK /\ MapInv /\ TypeOK'
  BY TableNext DEF WheelIInv, TableIInv
<1>b. /\ cur_index \in Slots /\ open \subseteq Fds /\ cut \in BOOLEAN
      /\ clean_flag \in [Slots -> BOOLEAN]
      /\ index \in [Fds -> Slots \cup {Absent}]
      /\ idle \in [Fds -> 0..IdleCap]
  BY <1>a DEF TypeOK
<1>o. /\ NoOp.kind = "none" /\ Down.kind = "down" /\ NoOp # Down
      /\ \/ op = NoOp /\ op.kind = "none"
         \/ op = Down /\ op.kind = "down"
         \/ /\ op # NoOp /\ op # Down /\ op.fd \in Fds
            /\ \/ op.kind \in {"add", "ready", "found", "run", "closing"}
               \/ op.kind \in {"update", "del"} /\ op.old \in Slots \cup {Absent}
  BY <1>a, OpFields
<1>s. Absent \notin Slots
  BY DEF Slots, Absent
<1>w. Fds \subseteq Numbers /\ Wild \in Numbers /\ Wild \notin Fds
  BY DEF Numbers
<1>y. slot \in [Slots -> [Numbers -> Int]]
  BY <1>a, SlotType
<1>c. ~cut /\ ExactInv /\ AgeInv
  <2>1. ~cut
    BY <1>b DEF Next, vars, AddClient, LoopStep, TqPush, EpollWait, GetCurClient, UpdateClient,
                TqUpdateConn, Finish, Close, DelClient, TqPop, Segfault, Tick, TickGivesUp
  <2> QED
    BY <2>1 DEF WheelIInv
<1>d. Dist(cur_index) = 0
  BY <1>a, <1>b, DistValue
<1>n. \A f \in open : index[f] # Absent
  BY <1>a DEF MapInv, Managed
<1>e. ASSUME Segfault PROVE ExactInv' /\ AgeInv'
  BY <1>a, <1>e, AfterSegfault DEF WheelIInv
\* A step of the loop that leaves table, wheel and ages as they are, outside the operations.
<1>0. ASSUME op.kind \notin Halves, op'.kind \notin Halves,
             UNCHANGED <<cur_index, slot, clean_flag, index>>,
             open' \subseteq open, \A f \in open' : idle'[f] = idle[f]
      PROVE  ExactInv' /\ AgeInv'
  <2>1. ExactInv'
    BY <1>0, <1>c DEF ExactInv, Settled, Halves
  <2>2. AgeInv'
    BY <1>0, <1>c DEF AgeInv, Dist
  <2> QED
    BY <2>1, <2>2
<1>1. ASSUME NEW f \in Fds, AddClient(f) PROVE ExactInv' /\ AgeInv'
  <2>1. /\ op'.kind = "add" /\ op'.fd = f /\ op' # NoOp /\ op = NoOp /\ op.kind = "none"
        /\ index' = [index EXCEPT ![f] = cur_index]
        /\ idle' = [idle EXCEPT ![f] = 0]
        /\ open' = open \cup {f} /\ f \notin open
        /\ UNCHANGED <<cur_index, slot, clean_flag, cut>>
    BY <1>1, <1>o DEF AddClient, NoOp, HashmapPut
  <2>2. \A k \in Slots : slot[k][f] = 0
    BY <1>a, <1>b, <1>c, <1>s, <2>1 DEF ExactInv, Settled, Halves, MapInv, Leaving, Managed
  <2>3. ExactInv'
    BY <1>b, <1>c, <2>1, <2>2 DEF ExactInv, Settled, Halves
  <2>4. AgeInv'
    BY <1>b, <1>c, <1>d, <2>1 DEF AgeInv, Dist
  <2> QED
    BY <2>3, <2>4
<1>2. CASE TqPush
  <2>1. /\ op.kind = "add" /\ op.fd \in Fds /\ op' = NoOp /\ op'.kind = "none"
        /\ UNCHANGED <<cur_index, clean_flag, index, open, idle>>
    BY <1>2, <1>o DEF TqPush
  <2>2. \A j \in Slots, g \in Numbers :
           slot'[j][g] = IF j = cur_index /\ g = op.fd THEN slot[j][g] + 1 ELSE slot[j][g]
    <3>1. slot' = AddNode(slot, cur_index, op.fd)
      BY <1>2 DEF TqPush
    <3>2. cur_index \in Slots /\ op.fd \in Numbers
      BY <1>b, <1>w, <2>1
    <3> QED
      BY ONLY <3>1, <3>2, <1>y, AddNodeValue
  <2>3. ASSUME NEW j \in Slots, NEW g \in Fds PROVE slot'[j][g] = IF index[g] = j THEN 1 ELSE 0
    BY <1>c, <1>w, <2>1, <2>2 DEF ExactInv, Settled
  <2>4. \A j \in Slots : slot'[j][Wild] = 0
    BY <1>c, <1>w, <2>1, <2>2 DEF ExactInv
  <2>5. ExactInv'
    BY <2>1, <2>3, <2>4 DEF ExactInv, Settled, Halves
  <2>6. AgeInv'
    BY <1>c, <2>1 DEF AgeInv, Dist
  <2> QED
    BY <2>5, <2>6
<1>3. ASSUME NEW f \in Fds, EpollWait(f) PROVE ExactInv' /\ AgeInv'
  <2>1. op.kind = "none" /\ op'.kind = "ready"
    BY <1>3, <1>o DEF EpollWait
  <2> QED
    BY <1>0, <1>3, <2>1 DEF EpollWait, Halves
<1>4. CASE GetCurClient
  <2>1. CASE op' = [kind |-> "found", fd |-> op.fd]
             /\ UNCHANGED <<cur_index, slot, clean_flag, index, open, idle, cut>>
    BY <1>0, <1>4, <2>1 DEF GetCurClient, Halves
  <2> QED
    BY <1>4, <1>e, <2>1 DEF GetCurClient
<1>5. CASE UpdateClient
  <2>1. /\ op.kind = "found" /\ op.fd \in Fds
        /\ op'.kind = "update" /\ op'.fd = op.fd /\ op'.old = index[op.fd]
        /\ idle' = [idle EXCEPT ![op.fd] = 0]
        /\ UNCHANGED <<cur_index, slot, clean_flag, open, cut>>
    BY <1>5, <1>o DEF UpdateClient
  <2>2. /\ \A g \in Fds : g # op.fd => index'[g] = index[g]
        /\ index[op.fd] # Absent => index'[op.fd] = cur_index
    BY <1>5, <1>b, <2>1 DEF UpdateClient, HashmapPut, Freed, Managed
  <2>3. \A g \in Fds, k \in Slots : slot[k][g] = IF index[g] = k THEN 1 ELSE 0
    BY <1>c, <2>1 DEF ExactInv, Settled, Halves
  <2>4. ExactInv'
    BY <1>b, <1>c, <2>1, <2>2, <2>3 DEF ExactInv, Settled, Halves
  <2>5. AgeInv'
    <3> SUFFICES ASSUME NEW f \in open
                 PROVE  /\ idle'[f] = Dist(index'[f])
                        /\ index'[f] # cur_index => clean_flag[index'[f]]
      BY <2>1 DEF AgeInv, Dist
    <3>1. CASE f = op.fd
      BY <3>1, <1>b, <1>d, <1>n, <2>1, <2>2
    <3>2. CASE f # op.fd
      BY <3>2, <1>b, <1>c, <2>1, <2>2 DEF AgeInv
    <3> QED
      BY <3>1, <3>2
  <2> QED
    BY <2>4, <2>5
<1>6. CASE TqUpdateConn
  <2>1. CASE op.old = Absent /\ Segfault
    BY <2>1, <1>e
  <2>2. CASE op.old # Absent /\ op' = [kind |-> "run", fd |-> op.fd]
             /\ UNCHANGED <<cur_index, clean_flag, index, open, idle, cut>>
    <3>1. /\ op.kind = "update" /\ op.fd \in Fds /\ op.fd \in Numbers /\ op.old \in Slots
          /\ op'.kind = "run"
      BY <1>6, <1>o, <1>w, <2>2 DEF TqUpdateConn
    <3>2. index[op.fd] = cur_index /\ ~Freed
      BY <1>b, <1>c, <1>s, <2>2, <3>1 DEF ExactInv, Freed, Managed
    <3>3. slot' = AddNode(DelNode(slot, op.old, op.fd), cur_index, op.fd)
      BY <1>6, <2>2, <3>2 DEF TqUpdateConn, Segfault, Down
    <3>4. \A j \in Slots, g \in Numbers :
             slot'[j][g] = IF g # op.fd THEN slot[j][g]
                           ELSE slot[j][g] - (IF j = op.old /\ slot[j][g] > 0 THEN 1 ELSE 0)
                                           + (IF j = cur_index THEN 1 ELSE 0)
      <4>1. cur_index \in Slots /\ op.old \in Slots /\ op.fd \in Numbers
        BY <1>b, <3>1
      <4> QED
        BY ONLY <1>y, <3>3, <4>1, MoveNodeValue
    <3>5. ASSUME NEW j \in Slots, NEW g \in Fds PROVE slot'[j][g] = IF index[g] = j THEN 1 ELSE 0
      <4>1. CASE g = op.fd
        <5>1. slot[j][g] = IF op.old = j THEN 1 ELSE 0
          BY <4>1, <1>c, <2>2, <3>1 DEF ExactInv
        <5> QED
          BY <4>1, <5>1, <1>w, <3>2, <3>4
      <4>2. CASE g # op.fd
        BY <4>2, <1>c, <1>w, <3>4 DEF ExactInv, Settled
      <4> QED
        BY <4>1, <4>2
    <3>6. \A j \in Slots : slot'[j][Wild] = 0
      BY <1>c, <1>w, <3>1, <3>4 DEF ExactInv
    <3>7. ExactInv'
      BY <2>2, <3>1, <3>5, <3>6 DEF ExactInv, Settled, Halves
    <3>8. AgeInv'
      BY <1>c, <2>2 DEF AgeInv, Dist
    <3> QED
      BY <3>7, <3>8
  <2> QED
    BY <1>6, <2>1, <2>2 DEF TqUpdateConn
<1>7. CASE Finish
  BY <1>0, <1>7, <1>o DEF Finish, Halves
<1>8. CASE Close
  <2>1. /\ op.kind \in {"found", "run"} /\ op'.kind = "closing"
        /\ \A f \in open' : idle'[f] = idle[f]
    BY <1>8, <1>b DEF Close
  <2> QED
    BY <1>0, <1>8, <2>1 DEF Close, Halves
<1>9. CASE DelClient
  <2>1. /\ op.kind = "closing" /\ op.fd \in Fds
        /\ op'.kind = "del" /\ op'.fd = op.fd /\ op'.old = index[op.fd]
        /\ UNCHANGED <<cur_index, slot, clean_flag, index, open, idle, cut>>
    BY <1>9, <1>o DEF DelClient
  <2>2. ExactInv'
    BY <1>c, <2>1 DEF ExactInv, Settled, Halves
  <2>3. AgeInv'
    BY <1>c, <2>1 DEF AgeInv, Dist
  <2> QED
    BY <2>2, <2>3
<1>10. CASE TqPop
  <2>1. CASE op.old = Absent /\ Segfault
    BY <2>1, <1>e
  <2>2. CASE /\ op.old # Absent
             /\ \/ slot' = DelNode(slot, op.old, op.fd) /\ UNCHANGED cut
                \/ (FreesFirst \/ Freed) /\ slot' = slot /\ cut' = TRUE
             /\ HashmapDelete({op.fd})
             /\ op' = NoOp
             /\ UNCHANGED <<cur_index, clean_flag, open, idle>>
    <3>1. /\ op.kind = "del" /\ op.fd \in Fds /\ op.fd \in Numbers /\ op.old \in Slots
          /\ op'.kind = "none"
          /\ index' = [f \in Fds |-> IF f = op.fd THEN Absent ELSE index[f]]
          /\ slot' = DelNode(slot, op.old, op.fd)
      BY <1>10, <1>o, <1>w, <2>2 DEF TqPop, HashmapDelete
    <3>2. \A j \in Slots, g \in Numbers :
             slot'[j][g] = IF j = op.old /\ g = op.fd /\ slot[j][g] > 0 THEN slot[j][g] - 1
                           ELSE slot[j][g]
      <4>1. slot' = DelNode(slot, op.old, op.fd) /\ op.old \in Slots /\ op.fd \in Numbers
        BY <3>1
      <4> QED
        BY ONLY <4>1, <1>y, DelNodeValue
    <3>3. \A j \in Slots : slot'[j][op.fd] = 0
      BY <1>c, <2>2, <3>1, <3>2 DEF ExactInv
    <3>4. \A j \in Slots, g \in Fds : g # op.fd => slot'[j][g] = IF index[g] = j THEN 1 ELSE 0
      BY <1>c, <1>w, <3>2 DEF ExactInv, Settled
    <3>5. \A j \in Slots : slot'[j][Wild] = 0
      BY <1>c, <1>w, <3>1, <3>2 DEF ExactInv
    <3>6. ASSUME NEW j \in Slots, NEW g \in Fds PROVE slot'[j][g] = IF index'[g] = j THEN 1 ELSE 0
      BY <1>s, <3>1, <3>3, <3>4
    <3>7. ExactInv'
      BY <3>1, <3>5, <3>6 DEF ExactInv, Settled, Halves
    <3>8. \A g \in open : index'[g] = index[g]
      BY <1>a, <1>b, <3>1 DEF MapInv, Leaving
    <3>9. AgeInv'
      BY <1>c, <2>2, <3>8 DEF AgeInv, Dist
    <3> QED
      BY <3>7, <3>9
  <2> QED
    BY <1>10, <2>1, <2>2 DEF TqPop
<1>11. CASE Tick
  <2>1. /\ op.kind \notin Halves /\ op' = op
        /\ index' = [f \in Fds |-> IF f \in Due THEN Absent ELSE index[f]]
        /\ open' = open \ Due
        /\ idle' = [f \in Fds |-> IF f \in open \ Due THEN Older(idle[f]) ELSE 0]
        /\ slot' = [slot EXCEPT ![Advance] =
                      [n \in Numbers |-> IF n \in Due THEN 0 ELSE slot[Advance][n]]]
        /\ clean_flag' = [clean_flag EXCEPT ![cur_index] = TRUE, ![Advance] = FALSE]
        /\ cur_index' = Advance
    BY <1>11 DEF Tick, Evict, HashmapDelete
  <2>2. Advance \in Slots /\ Advance # cur_index
    BY <1>a, AdvanceValue
  <2>3. /\ \A n \in Due : n \in Managed /\ slot[Advance][n] = 1 /\ index[n] = Advance
        /\ \A f \in open : index[f] = Advance => f \in Due
    BY <1>a, <1>c, <2>1, DueExact
  <2>4. ExactInv'
    <3>1. \A f \in Fds, k \in Slots : slot[k][f] = IF index[f] = k THEN 1 ELSE 0
      BY <1>c, <2>1 DEF ExactInv, Settled
    <3>2. ASSUME NEW f \in Fds, NEW k \in Slots
          PROVE  slot'[k][f] = IF index'[f] = k THEN 1 ELSE 0
      <4>1. CASE f \in Due
        <5>1. index'[f] = Absent /\ index[f] = Advance
          BY <2>1, <2>3, <4>1
        <5>2. slot'[k][f] = 0
          BY <1>w, <1>y, <2>1, <2>2, <3>1, <4>1, <5>1
        <5> QED
          BY <1>s, <5>1, <5>2
      <4>2. CASE f \notin Due
        BY <1>w, <1>y, <2>1, <2>2, <3>1, <4>2
      <4> QED
        BY <4>1, <4>2
    <3>3. Wild \notin Due
      BY <1>w, <2>3 DEF Managed
    <3>4. \A k \in Slots : slot'[k][Wild] = 0
      BY <1>c, <1>w, <1>y, <2>1, <2>2, <3>3 DEF ExactInv
    <3> QED
      BY <2>1, <3>2, <3>4 DEF ExactInv, Settled, Halves
  <2>5. AgeInv'
    <3> SUFFICES ASSUME NEW f \in open, f \notin Due
                 PROVE  /\ idle'[f] = (Dist(index[f]))'
                        /\ index[f] # Advance => clean_flag'[index[f]]
                        /\ index'[f] = index[f]
      BY <1>b, <2>1 DEF AgeInv, Dist
    <3>1. index[f] \in Slots /\ index[f] # Advance /\ index'[f] = index[f]
      BY <1>b, <1>n, <2>1, <2>3
    <3>2. idle[f] = Dist(index[f]) /\ idle[f] \in 0..(TIME_OUT - 1)
      BY <1>a, <1>c, <3>1, DistValue DEF AgeInv
    <3>3. idle'[f] = idle[f] + 1
      BY <1>b, <2>1, <3>2 DEF Older, IdleCap
    <3>4. (Dist(index[f]))' = Dist(index[f]) + 1
      BY <1>a, <2>1, <3>1, DistTick DEF Dist
    <3>5. clean_flag'[index[f]]
      BY <1>b, <1>c, <2>1, <2>2, <3>1 DEF AgeInv
    <3> QED
      BY <3>1, <3>2, <3>3, <3>4, <3>5
  <2> QED
    BY <2>4, <2>5
<1>12. CASE TickGivesUp
  <2>1. op.kind \notin Halves
    BY <1>12 DEF TickGivesUp
  <2>2. \A n \in Due : n \in Managed /\ slot[Advance][n] = 1
    BY <1>a, <1>c, <2>1, DueExact
  <2> QED
    BY <1>12, <2>2 DEF TickGivesUp
<1>13. CASE UNCHANGED vars
  BY <1>c, <1>13 DEF vars, ExactInv, AgeInv, Settled, Dist
<1> QED
  BY <1>1, <1>2, <1>3, <1>4, <1>5, <1>6, <1>7, <1>8, <1>9, <1>10, <1>11, <1>12, <1>13
  DEF Next, LoopStep

LEMMA WheelIInvHolds == Spec => []WheelIInv
BY WheelInit, WheelNext, PTL DEF Spec

\* Until a tick falls inside an operation, or v2's tq_pop misses its node, each managed
\* client has its one node where the map says, and nobody silent for TIME_OUT ticks is
\* kept, however long the loop is held by one of them.
THEOREM WheelCorrect == Spec => []WheelInv
<1>1. WheelIInv => WheelInv
  <2> SUFFICES ASSUME WheelIInv PROVE WheelInv
    OBVIOUS
  <2>1. TypeOK /\ MapInv
    BY DEF WheelIInv, TableIInv
  <2>2. WheelAgrees
    BY DEF WheelIInv, WheelAgrees, ExactInv, Settled
  <2>3. NotOverdue
    <3> SUFFICES ASSUME ~cut, NEW f \in open PROVE idle[f] < TIME_OUT
      BY DEF NotOverdue
    <3>1. index[f] \in Slots
      BY <2>1 DEF TypeOK, MapInv, Managed
    <3>2. idle[f] = Dist(index[f])
      BY DEF WheelIInv, AgeInv
    <3> QED
      BY <2>1, <3>1, <3>2, DistValue, WheelAssumption
  <2> QED
    BY <2>2, <2>3 DEF WheelInv
<1> QED
  BY <1>1, WheelIInvHolds, PTL

\* Until a tick falls inside an operation, the handler closes only clients that have been
\* silent for TIME_OUT ticks, also those the loop is busy with.
THEOREM EvictsOnlyIdle == Spec => EvictedOnlyIdle
<1> DEFINE A == \A f \in Fds : f \in open \ open' /\ cur_index' # cur_index /\ ~cut' =>
                                   idle[f] + 1 >= TIME_OUT
<1>1. WheelIInv /\ [Next]_vars => [A]_vars
  <2> SUFFICES ASSUME WheelIInv, Next, NEW f \in Fds, f \in open \ open',
                      cur_index' # cur_index, ~cut'
               PROVE  idle[f] + 1 >= TIME_OUT
    OBVIOUS
  <2>1. /\ cut' = (cut \/ op.kind \in Halves)
        /\ f \in Due
    <3>1. Tick \/ TickGivesUp
      BY DEF Next, AddClient, LoopStep, TqPush, EpollWait, GetCurClient, UpdateClient,
             TqUpdateConn, Finish, Close, DelClient, TqPop, Segfault
    <3> QED
      BY <3>1 DEF Tick, TickGivesUp, Evict
  <2>2. TableIInv /\ TypeOK /\ ExactInv /\ AgeInv /\ op.kind \notin Halves
    BY <2>1 DEF WheelIInv, TableIInv, TypeOK
  <2>3. index[f] = Advance /\ Advance \in Slots
    BY <2>1, <2>2, DueExact, AdvanceValue
  <2>4. idle[f] = TIME_OUT - 1
    BY <2>2, <2>3, DistValue DEF AgeInv
  <2> QED
    BY <2>4, WheelAssumption
<1> QED
  BY <1>1, WheelIInvHolds, PTL DEF Spec, EvictedOnlyIdle
=============================================================================
