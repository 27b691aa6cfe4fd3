----------------------------- MODULE WifiProofs -----------------------------
(* Proofs about WifiTcp: WifiInv is an invariant, for every number of slots *)
(* and clients and every size of the registry and of the rings, of an       *)
(* application that does not call connect() in the client's on_close().     *)
EXTENDS WifiTcp, FiniteSetTheorems, SequenceTheorems, WellFoundedInduction, TLAPS

(* The smallest of some numbers is one of them. *)
LEMMA MinIn ==
    ASSUME NEW S \in SUBSET Nat, S # {}
    PROVE  Min(S) \in S
<1>1. PICK R : R = OpToRel(<, Nat)
  OBVIOUS
<1>2. IsWellFoundedOn(R, Nat)
  BY <1>1, NatLessThanWellFounded, Zenon
<1>3. PICK x \in S : \A y \in S : ~ (<<y, x>> \in R)
  BY <1>2, WFMin, Zenon
<1>4. \A y \in S : <<y, x>> \in R <=> y < x
  BY <1>1 DEF OpToRel
<1>5. \A y \in S : ~ (y < x)
  BY <1>3, <1>4, Zenon
<1>6. \A y \in S : x <= y
  BY <1>5
<1>7. QED
  BY <1>6 DEF Min

(* The parameters, and the slots of both roles. *)
LEMMA Sizes ==
    ASSUME StateInv
    PROVE  /\ Slots \subseteq Nat /\ 0 \in Slots /\ Null \notin Slots
           /\ role = "client" => Slots = {0}
           /\ Entries \subseteq Nat /\ Peers \subseteq Nat /\ NoPeer \notin Peers
           /\ MaxInput \in Nat /\ Capacity \in Nat \ {0}
<1>1. MaxConnections \in Nat \ {0} /\ RegistrySize \in Nat \ {0} /\ MaxPeers \in Nat
  BY WifiAssumption
<1>2. QED
  BY <1>1, WifiAssumption, RingAssumption DEF StateInv, Slots, Null, Entries, Peers, NoPeer

-----------------------------------------------------------------------------
(* Types. *)

IsConnection(c) == c = [active |-> c.active, peer |-> c.peer, line |-> c.line, tx |-> c.tx]

IsPeer(r) ==
    /\ r = [phase |-> r.phase, ended |-> r.ended, input |-> r.input, wire |-> r.wire,
            written |-> r.written, ends |-> r.ends, left |-> r.left]
    /\ r.input \in Nat

LEMMA PeerChanges ==
    ASSUME NEW r, IsPeer(r)
    PROVE  /\ Stopped(r) = [phase |-> r.phase, ended |-> TRUE, input |-> 0, wire |-> <<>>,
                            written |-> 0, ends |-> r.ends, left |-> r.left]
           /\ \A x : IsPeer([r EXCEPT !.phase = x])
           /\ \A x : IsPeer([r EXCEPT !.ended = x])
           /\ \A x \in Nat : IsPeer([r EXCEPT !.input = x])
           /\ \A x : IsPeer([r EXCEPT !.wire = x])
           /\ \A x : IsPeer([r EXCEPT !.written = x])
           /\ \A x : IsPeer([r EXCEPT !.ends = x])
           /\ \A x : IsPeer([r EXCEPT !.left = x])
<1>1. PICK ph, e, i, w, wr, n, l :
        r = [phase |-> ph, ended |-> e, input |-> i, wire |-> w, written |-> wr, ends |-> n, left |-> l]
  BY DEF IsPeer
<1>2. i \in Nat
  BY <1>1 DEF IsPeer
<1>3. Stopped(r) = [phase |-> ph, ended |-> TRUE, input |-> 0, wire |-> <<>>, written |-> 0,
                    ends |-> n, left |-> l]
  <2>1. PICK none : none = <<>>
    OBVIOUS
  <2>2. [r EXCEPT !.ended = TRUE, !.input = 0, !.wire = none, !.written = 0]
           = [phase |-> ph, ended |-> TRUE, input |-> 0, wire |-> none, written |-> 0,
              ends |-> n, left |-> l]
    <3>1. PICK a : a = [r EXCEPT !.ended = TRUE]
      OBVIOUS
    <3>2. PICK b : b = [a EXCEPT !.input = 0]
      OBVIOUS
    <3>3. PICK c : c = [b EXCEPT !.wire = none]
      OBVIOUS
    <3>4. a = [phase |-> ph, ended |-> TRUE, input |-> i, wire |-> w, written |-> wr, ends |-> n,
               left |-> l]
      BY <1>1, <3>1
    <3>5. b = [phase |-> ph, ended |-> TRUE, input |-> 0, wire |-> w, written |-> wr, ends |-> n,
               left |-> l]
      BY <3>2, <3>4
    <3>6. c = [phase |-> ph, ended |-> TRUE, input |-> 0, wire |-> none, written |-> wr, ends |-> n,
               left |-> l]
      BY <3>3, <3>5
    <3>7. PICK d : d = [c EXCEPT !.written = 0]
      OBVIOUS
    <3>8. d = [phase |-> ph, ended |-> TRUE, input |-> 0, wire |-> none, written |-> 0, ends |-> n,
               left |-> l]
      BY <3>6, <3>7
    <3>9. QED
      BY <3>1, <3>2, <3>3, <3>7, <3>8, Zenon
  <2>3. QED
    BY <2>1, <2>2 DEF Stopped
<1>4. \A x : IsPeer([r EXCEPT !.phase = x])
  <2> TAKE x
  <2>1. [r EXCEPT !.phase = x] = [phase |-> x, ended |-> e, input |-> i, wire |-> w, written |-> wr, ends |-> n, left |-> l]
    BY <1>1
  <2>2. QED
    BY <1>2, <2>1 DEF IsPeer
<1>5. \A x : IsPeer([r EXCEPT !.ended = x])
  <2> TAKE x
  <2>1. [r EXCEPT !.ended = x] = [phase |-> ph, ended |-> x, input |-> i, wire |-> w, written |-> wr, ends |-> n, left |-> l]
    BY <1>1
  <2>2. QED
    BY <1>2, <2>1 DEF IsPeer
<1>6. \A x \in Nat : IsPeer([r EXCEPT !.input = x])
  <2> TAKE x \in Nat
  <2>1. [r EXCEPT !.input = x] = [phase |-> ph, ended |-> e, input |-> x, wire |-> w, written |-> wr, ends |-> n, left |-> l]
    BY <1>1
  <2>2. QED
    BY <1>2, <2>1 DEF IsPeer
<1>7. \A x : IsPeer([r EXCEPT !.wire = x])
  <2> TAKE x
  <2>1. [r EXCEPT !.wire = x] = [phase |-> ph, ended |-> e, input |-> i, wire |-> x, written |-> wr, ends |-> n, left |-> l]
    BY <1>1
  <2>2. QED
    BY <1>2, <2>1 DEF IsPeer
<1>8. \A x : IsPeer([r EXCEPT !.written = x])
  <2> TAKE x
  <2>1. [r EXCEPT !.written = x] = [phase |-> ph, ended |-> e, input |-> i, wire |-> w, written |-> x, ends |-> n, left |-> l]
    BY <1>1
  <2>2. QED
    BY <1>2, <2>1 DEF IsPeer
<1>9. \A x : IsPeer([r EXCEPT !.ends = x])
  <2> TAKE x
  <2>1. [r EXCEPT !.ends = x] = [phase |-> ph, ended |-> e, input |-> i, wire |-> w, written |-> wr, ends |-> x, left |-> l]
    BY <1>1
  <2>2. QED
    BY <1>2, <2>1 DEF IsPeer
<1>10. \A x : IsPeer([r EXCEPT !.left = x])
  <2> TAKE x
  <2>1. [r EXCEPT !.left = x] = [phase |-> ph, ended |-> e, input |-> i, wire |-> w, written |-> wr, ends |-> n, left |-> x]
    BY <1>1
  <2>2. QED
    BY <1>2, <2>1 DEF IsPeer
<1>11. QED
  BY <1>1, <1>3, <1>4, <1>5, <1>6, <1>7, <1>8, <1>9, <1>10

LEMMA ConnectionChanges ==
    ASSUME NEW c, IsConnection(c)
    PROVE  /\ IsConnection(NoConnection)
           /\ \A x : IsConnection([c EXCEPT !.tx = x])
           /\ \A x : IsConnection([c EXCEPT !.line = x])
           /\ \A p : [NoConnection EXCEPT !.active = TRUE, !.peer = p]
                       = [active |-> TRUE, peer |-> p, line |-> {}, tx |-> EmptyRing]
<1>1. PICK a, p, l, t : c = [active |-> a, peer |-> p, line |-> l, tx |-> t]
  BY DEF IsConnection
<1>2. PICK none : none = {}
  OBVIOUS
<1>3. PICK empty : empty = EmptyRing
  OBVIOUS
<1>4. IsConnection(NoConnection)
  BY DEF IsConnection, NoConnection
<1>5. \A x : IsConnection([c EXCEPT !.tx = x])
  <2> TAKE x
  <2>1. [c EXCEPT !.tx = x] = [active |-> a, peer |-> p, line |-> l, tx |-> x]
    BY <1>1
  <2>2. QED
    BY <2>1 DEF IsConnection
<1>6. \A x : IsConnection([c EXCEPT !.line = x])
  <2> TAKE x
  <2>1. [c EXCEPT !.line = x] = [active |-> a, peer |-> p, line |-> x, tx |-> t]
    BY <1>1
  <2>2. QED
    BY <2>1 DEF IsConnection
<1>7. ASSUME NEW q
      PROVE  [NoConnection EXCEPT !.active = TRUE, !.peer = q]
               = [active |-> TRUE, peer |-> q, line |-> none, tx |-> empty]
  <2>1. PICK d : d = [NoConnection EXCEPT !.active = TRUE]
    OBVIOUS
  <2>2. NoConnection = [active |-> FALSE, peer |-> NoPeer, line |-> none, tx |-> empty]
    BY <1>2, <1>3, Zenon DEF NoConnection
  <2>3. d = [active |-> TRUE, peer |-> NoPeer, line |-> none, tx |-> empty]
    BY <2>1, <2>2
  <2>4. PICK e : e = [d EXCEPT !.peer = q]
    OBVIOUS
  <2>5. e = [active |-> TRUE, peer |-> q, line |-> none, tx |-> empty]
    BY <2>3, <2>4
  <2>6. QED
    BY <2>1, <2>4, <2>5, Zenon
<1>8. QED
  BY <1>2, <1>3, <1>4, <1>5, <1>6, <1>7, Zenon

(* A connection that has just been attached, and a peer whose connection    *)
(* has been closed: by the application, or because it ended.                *)
Fresh(p) == [active |-> TRUE, peer |-> p, line |-> {}, tx |-> EmptyRing]

Parted(r, phase, ends, left) ==
    [phase |-> phase, ended |-> TRUE, input |-> 0, wire |-> <<>>, written |-> 0, ends |-> ends,
     left |-> left]

LEMMA AttachIs ==
    ASSUME StateInv, NEW i \in Slots, NEW p
    PROVE  /\ attach(conns, i, p) = [conns EXCEPT ![i] = Fresh(p)]
           /\ close(attach(conns, i, p), i) = [conns EXCEPT ![i] = NoConnection]
<1>1. PICK fresh : fresh = [NoConnection EXCEPT !.active = TRUE, !.peer = p]
  OBVIOUS
<1>2. fresh = Fresh(p)
  <2>1. IsConnection(NoConnection)
    BY DEF IsConnection, NoConnection
  <2>2. QED
    BY <1>1, <2>1, ConnectionChanges, Zenon DEF Fresh
<1>3. conns = [s \in Slots |-> conns[s]]
  BY DEF StateInv
<1>4. close(conns, i)[i] = NoConnection
  BY <1>3 DEF close
<1>5. attach(conns, i, p) = [close(conns, i) EXCEPT ![i] = fresh]
  <2>1. PICK a : a = close(conns, i)
    OBVIOUS
  <2>2. a = [s \in Slots |-> a[s]] /\ a[i] = NoConnection
    BY <1>3, <2>1 DEF close
  <2>3. PICK b : b = [a EXCEPT ![i].active = TRUE]
    OBVIOUS
  <2>4. b = [s \in Slots |-> b[s]] /\ b[i] = [NoConnection EXCEPT !.active = TRUE]
        /\ \A s \in Slots : s # i => b[s] = a[s]
    BY <2>2, <2>3
  <2>5. PICK c : c = [b EXCEPT ![i].peer = p]
    OBVIOUS
  <2>6. PICK d : d = [NoConnection EXCEPT !.active = TRUE]
    OBVIOUS
  <2>7. c = [s \in Slots |-> c[s]] /\ c[i] = [d EXCEPT !.peer = p]
        /\ \A s \in Slots : s # i => c[s] = a[s]
    BY <2>4, <2>5, <2>6
  <2>8. c[i] = fresh
    BY <1>1, <2>6, <2>7, Zenon
  <2>9. c = [a EXCEPT ![i] = fresh]
    BY <2>2, <2>7, <2>8
  <2>10. attach(conns, i, p) = c
    BY <2>1, <2>3, <2>5, Zenon DEF attach
  <2>11. QED
    BY <2>1, <2>9, <2>10
<1>6. QED
  BY <1>2, <1>3, <1>5 DEF close

LEMMA PartedIs ==
    ASSUME NEW r, IsPeer(r)
    PROVE  /\ Stopped(r) = Parted(r, r.phase, r.ends, r.left)
           /\ [Stopped(r) EXCEPT !.left = TRUE] = Parted(r, r.phase, r.ends, TRUE)
           /\ [Stopped(r) EXCEPT !.phase = "refused"] = Parted(r, "refused", r.ends, r.left)
           /\ [Stopped(r) EXCEPT !.phase = "served", !.ends = 1] = Parted(r, "served", 1, r.left)
<1>1. PICK none : none = <<>>
  OBVIOUS
<1>2. PICK ph, n, l : ph = r.phase /\ n = r.ends /\ l = r.left
  OBVIOUS
<1>3. PICK s : s = Stopped(r)
  OBVIOUS
<1>4. s = [phase |-> ph, ended |-> TRUE, input |-> 0, wire |-> none, written |-> 0, ends |-> n,
           left |-> l]
  BY <1>1, <1>2, <1>3, PeerChanges, Zenon
<1>5. [s EXCEPT !.left = TRUE]
        = [phase |-> ph, ended |-> TRUE, input |-> 0, wire |-> none, written |-> 0, ends |-> n,
           left |-> TRUE]
  <2>1. PICK a : a = [s EXCEPT !.left = TRUE]
    OBVIOUS
  <2>2. a = [phase |-> ph, ended |-> TRUE, input |-> 0, wire |-> none, written |-> 0, ends |-> n,
             left |-> TRUE]
    BY <1>4, <2>1
  <2>3. QED
    BY <2>1, <2>2, Zenon
<1>6. [s EXCEPT !.phase = "refused"]
        = [phase |-> "refused", ended |-> TRUE, input |-> 0, wire |-> none, written |-> 0, ends |-> n,
           left |-> l]
  <2>1. PICK a : a = [s EXCEPT !.phase = "refused"]
    OBVIOUS
  <2>2. a = [phase |-> "refused", ended |-> TRUE, input |-> 0, wire |-> none, written |-> 0, ends |-> n,
             left |-> l]
    BY <1>4, <2>1
  <2>3. QED
    BY <2>1, <2>2, Zenon
<1>7. [s EXCEPT !.phase = "served", !.ends = 1]
        = [phase |-> "served", ended |-> TRUE, input |-> 0, wire |-> none, written |-> 0, ends |-> 1,
           left |-> l]
  <2>1. PICK a : a = [s EXCEPT !.phase = "served"]
    OBVIOUS
  <2>2. a = [phase |-> "served", ended |-> TRUE, input |-> 0, wire |-> none, written |-> 0,
             ends |-> n, left |-> l]
    BY <1>4, <2>1
  <2>3. PICK b : b = [a EXCEPT !.ends = 1]
    OBVIOUS
  <2>4. b = [phase |-> "served", ended |-> TRUE, input |-> 0, wire |-> none, written |-> 0,
             ends |-> 1, left |-> l]
    BY <2>2, <2>3
  <2>5. QED
    BY <2>1, <2>3, <2>4, Zenon
<1>8. QED
  BY <1>1, <1>2, <1>3, <1>4, <1>5, <1>6, <1>7, Zenon DEF Parted

-----------------------------------------------------------------------------
(* What each action does, a slot and a peer at a time. *)

LEMMA GivenUpIs ==
    ASSUME StateInv, NEW S
    PROVE  GivenUp(peers, S) =
             [p \in Peers |-> IF Of(p, S) THEN Parted(peers[p], peers[p].phase, peers[p].ends, TRUE)
                              ELSE peers[p]]
<1>1. \A p \in Peers : IsPeer(peers[p])
  BY DEF StateInv, IsPeer
<1>2. \A p \in Peers : [Stopped(peers[p]) EXCEPT !.left = TRUE]
                          = Parted(peers[p], peers[p].phase, peers[p].ends, TRUE)
  BY <1>1, PartedIs, Zenon
<1>3. QED
  BY <1>2, Zenon DEF GivenUp

LEMMA PollAcceptsEffect ==
    ASSUME StateInv, NEW p \in Peers, PollAccepts(p)
    PROVE  \E i \in Slots :
             /\ role = "server" /\ At("idle") /\ ~ conns[i].active /\ peers[p].phase = "waiting"
             /\ registry' = add(registry, i)
             /\ conns' = [conns EXCEPT ![i] = IF Listed(add(registry, i), i) THEN Fresh(p)
                                              ELSE NoConnection]
             /\ peers' = [peers EXCEPT ![p] = IF Listed(add(registry, i), i)
                                              THEN [peers[p] EXCEPT !.phase = "served"]
                                              ELSE Parted(peers[p], "served", peers[p].ends, TRUE)]
             /\ frame' = [at |-> "on_accept", slot |-> 0]
             /\ UNCHANGED <<role, active>>
<1>1. {s \in Slots : ~ conns[s].active} \in SUBSET Nat /\ Waiting \in SUBSET Nat
  BY Sizes DEF Waiting
<1>2. PICK i : i = Min({s \in Slots : ~ conns[s].active})
  OBVIOUS
<1>3. i \in Slots /\ ~ conns[i].active
  <2>1. {s \in Slots : ~ conns[s].active} # {}
    BY DEF PollAccepts
  <2>2. i \in {s \in Slots : ~ conns[s].active}
    BY <1>1, <1>2, <2>1, MinIn, Zenon
  <2>3. QED
    BY <2>2
<1>4. p \in Waiting
  BY <1>1, MinIn, Zenon DEF PollAccepts
<1>5. PICK listed : listed = add(registry, i)
  OBVIOUS
<1>6. /\ role = "server" /\ At("idle")
      /\ conns' = IF Listed(listed, i) THEN attach(conns, i, p) ELSE close(attach(conns, i, p), i)
      /\ registry' = listed
      /\ peers' = IF Listed(listed, i) THEN [peers EXCEPT ![p].phase = "served"]
                  ELSE [[peers EXCEPT ![p].phase = "served"]
                          EXCEPT ![p] = [Stopped(@) EXCEPT !.left = TRUE]]
      /\ frame' = [at |-> "on_accept", slot |-> 0]
      /\ UNCHANGED <<role, active>>
  BY <1>2, <1>5, Zenon DEF PollAccepts
<1>7. /\ attach(conns, i, p) = [conns EXCEPT ![i] = Fresh(p)]
      /\ close(attach(conns, i, p), i) = [conns EXCEPT ![i] = NoConnection]
  BY <1>3, AttachIs
<1>8. [[peers EXCEPT ![p].phase = "served"] EXCEPT ![p] = [Stopped(@) EXCEPT !.left = TRUE]]
        = [peers EXCEPT ![p] = Parted(peers[p], "served", peers[p].ends, TRUE)]
  <2>1. PICK a : a = [peers[p] EXCEPT !.phase = "served"]
    OBVIOUS
  <2>2. IsPeer(peers[p])
    BY DEF StateInv, IsPeer
  <2>3. IsPeer(a) /\ a.phase = "served" /\ a.ends = peers[p].ends
    BY <2>1, <2>2, PeerChanges DEF IsPeer
  <2>4. [Stopped(a) EXCEPT !.left = TRUE] = Parted(a, a.phase, a.ends, TRUE)
    BY <2>3, PartedIs, Zenon
  <2>5. PICK b : b = [peers EXCEPT ![p].phase = "served"]
    OBVIOUS
  <2>6. b = [peers EXCEPT ![p] = a]
    BY <2>1, <2>5
  <2>7. b[p] = a /\ b = [q \in Peers |-> b[q]] /\ \A q \in Peers : q # p => b[q] = peers[q]
    BY <2>6 DEF StateInv
  <2>8. PICK c : c = Parted(peers[p], "served", peers[p].ends, TRUE)
    OBVIOUS
  <2>9. c = [Stopped(a) EXCEPT !.left = TRUE]
    BY <2>3, <2>4, <2>8, Zenon DEF Parted
  <2>10. [b EXCEPT ![p] = [Stopped(@) EXCEPT !.left = TRUE]] = [b EXCEPT ![p] = c]
    BY <2>7, <2>9, Zenon
  <2>11. [b EXCEPT ![p] = c] = [peers EXCEPT ![p] = c]
    BY <2>7 DEF StateInv
  <2>12. QED
    BY <2>5, <2>8, <2>10, <2>11, Zenon
<1>9. peers' = [peers EXCEPT ![p] = IF Listed(listed, i) THEN [peers[p] EXCEPT !.phase = "served"]
                                    ELSE Parted(peers[p], "served", peers[p].ends, TRUE)]
  BY <1>6, <1>8, Zenon
<1>10. conns' = [conns EXCEPT ![i] = IF Listed(listed, i) THEN Fresh(p) ELSE NoConnection]
  BY <1>6, <1>7, Zenon
<1>11. QED
  BY <1>3, <1>4, <1>5, <1>6, <1>9, <1>10 DEF Waiting

LEMMA PollRefusesEffect ==
    ASSUME StateInv, NEW p \in Peers, PollRefuses(p)
    PROVE  /\ peers[p].phase = "waiting" /\ At("idle")
           /\ peers' = [peers EXCEPT ![p] = Parted(peers[p], "refused", peers[p].ends, peers[p].left)]
           /\ frame' = [frame EXCEPT !.at = "flush"]
           /\ UNCHANGED <<role, active, conns, registry>>
<1>1. Waiting \in SUBSET Nat
  BY Sizes DEF Waiting
<1>2. p \in Waiting
  BY <1>1, MinIn, Zenon DEF PollRefuses
<1>3. IsPeer(peers[p])
  BY DEF StateInv, IsPeer
<1>4. [Stopped(peers[p]) EXCEPT !.phase = "refused"]
        = Parted(peers[p], "refused", peers[p].ends, peers[p].left)
  BY <1>3, PartedIs, Zenon
<1>5. peers' = [peers EXCEPT ![p] = [Stopped(peers[p]) EXCEPT !.phase = "refused"]]
  BY Zenon DEF PollRefuses
<1>6. QED
  BY <1>2, <1>4, <1>5, Zenon DEF PollRefuses, Goes, Waiting

(* The end of on_close() *)
LEMMA ClosedEffect ==
    ASSUME StateInv, At("on_close"), CallbackReturns
    PROVE  /\ conns' = [conns EXCEPT ![frame.slot] = NoConnection]
           /\ peers' = [p \in Peers |->
                          IF Of(p, {frame.slot})
                          THEN Parted(peers[p], peers[p].phase, peers[p].ends, peers[p].left)
                          ELSE peers[p]]
           /\ active' = (active /\ role = "server")
           /\ NextSlot
           /\ UNCHANGED <<role, registry>>
<1>1. /\ conns' = close(conns, frame.slot)
      /\ active' = (active /\ role = "server")
      /\ peers' = [p \in Peers |-> IF Of(p, {frame.slot}) THEN Stopped(peers[p]) ELSE peers[p]]
      /\ NextSlot
      /\ UNCHANGED <<role, registry>>
  BY DEF CallbackReturns, At
<1>2. \A p \in Peers : Stopped(peers[p])
                         = Parted(peers[p], peers[p].phase, peers[p].ends, peers[p].left)
  <2> TAKE p \in Peers
  <2>1. IsPeer(peers[p])
    BY DEF StateInv, IsPeer
  <2>2. QED
    BY <2>1, PartedIs, Zenon
<1>3. QED
  BY <1>1, <1>2, Zenon DEF close

LEMMA CloseConnectionEffect ==
    ASSUME StateInv, NEW i \in Slots, NEW remove \in BOOLEAN, CloseConnection(i, remove)
    PROVE  /\ AppRuns /\ conns[i].active
           /\ conns' = [conns EXCEPT ![i] = NoConnection]
           /\ registry' = IF remove THEN Remove(registry, i) ELSE registry
           /\ peers' = [p \in Peers |->
                          IF Of(p, {i}) THEN Parted(peers[p], peers[p].phase, peers[p].ends, TRUE)
                          ELSE peers[p]]
           /\ UNCHANGED <<role, active, frame>>
BY GivenUpIs, Zenon DEF CloseConnection, close, valid

LEMMA CloseEffect ==
    ASSUME StateInv, Close
    PROVE  /\ conns' = [i \in Slots |-> NoConnection] /\ active' = FALSE
           /\ registry' = [entries |-> [e \in Entries |-> Null], count |-> 0]
           /\ peers' = [p \in Peers |->
                          IF peers[p].phase = "waiting"
                          THEN Parted(peers[p], "refused", peers[p].ends, peers[p].left)
                          ELSE IF Of(p, Slots)
                               THEN Parted(peers[p], peers[p].phase, peers[p].ends, TRUE)
                               ELSE peers[p]]
           /\ UNCHANGED <<role, frame>>
<1>1. \A p \in Peers : /\ p \in Waiting <=> peers[p].phase = "waiting"
                       /\ [Stopped(peers[p]) EXCEPT !.phase = "refused"]
                             = Parted(peers[p], "refused", peers[p].ends, peers[p].left)
  <2> TAKE p \in Peers
  <2>1. IsPeer(peers[p])
    BY DEF StateInv, IsPeer
  <2>2. p \in Waiting <=> peers[p].phase = "waiting"
    BY DEF Waiting
  <2>3. QED
    BY <2>1, <2>2, PartedIs, Zenon
<1>2. PICK given : given = GivenUp(peers, Slots)
  OBVIOUS
<1>3. \A p \in Peers : given[p] = IF Of(p, Slots)
                                  THEN Parted(peers[p], peers[p].phase, peers[p].ends, TRUE)
                                  ELSE peers[p]
  BY <1>2, GivenUpIs, Zenon
<1>4. peers' = [p \in Peers |-> IF p \in Waiting THEN [Stopped(peers[p]) EXCEPT !.phase = "refused"]
                                ELSE given[p]]
  BY <1>2, Zenon DEF Close
<1>5. peers' = [p \in Peers |->
                  IF peers[p].phase = "waiting"
                  THEN Parted(peers[p], "refused", peers[p].ends, peers[p].left)
                  ELSE IF Of(p, Slots) THEN Parted(peers[p], peers[p].phase, peers[p].ends, TRUE)
                       ELSE peers[p]]
  BY <1>1, <1>3, <1>4, Zenon
<1>6. QED
  BY <1>5 DEF Close

LEMMA ConnectEffect ==
    ASSUME StateInv, Attached, NEW p \in Peers, connect(p)
    PROVE  /\ role = "client" /\ AppRuns /\ peers[p].phase = "new" /\ ~ Of(p, {0})
           /\ AppUse = "careful" => ~ At("on_close")
           /\ UNCHANGED <<role, registry, frame>>
           /\ \A q \in Peers \ {p} : peers'[q] =
                IF Of(q, {0}) THEN Parted(peers[q], peers[q].phase, peers[q].ends, TRUE) ELSE peers[q]
           /\ peers' = [q \in Peers |-> peers'[q]]
           /\ \/ /\ conns' = [conns EXCEPT ![0] = NoConnection] /\ active' = FALSE
                 /\ peers'[p] = Parted(peers[p], "served", 1, peers[p].left)
              \/ /\ conns' = [conns EXCEPT ![0] = Fresh(p)] /\ active' = TRUE
                 /\ peers'[p] = [peers[p] EXCEPT !.phase = "served"]
<1>1. 0 \in Slots
  BY Sizes
<1>2. role = "client" /\ AppRuns /\ peers[p].phase = "new"
      /\ (AppUse = "careful" => ~ At("on_close")) /\ UNCHANGED <<role, registry, frame>>
  BY DEF connect, InOrder
<1>3. ~ Of(p, {0})
  BY <1>1, <1>2 DEF Of, Attached
<1>4. PICK given : given = GivenUp(peers, {0})
  OBVIOUS
<1>5. /\ given = [q \in Peers |-> given[q]] /\ given[p] = peers[p]
      /\ \A q \in Peers : given[q] = IF Of(q, {0})
                                     THEN Parted(peers[q], peers[q].phase, peers[q].ends, TRUE)
                                     ELSE peers[q]
  BY <1>3, <1>4, GivenUpIs, Zenon
<1>6. CASE active' = FALSE /\ conns' = close(conns, 0)
           /\ peers' = [given EXCEPT ![p] = [Stopped(@) EXCEPT !.phase = "served", !.ends = 1]]
  <2>1. IsPeer(peers[p])
    BY DEF StateInv, IsPeer
  <2>2. PICK r : r = Parted(peers[p], "served", 1, peers[p].left)
    OBVIOUS
  <2>3. peers' = [given EXCEPT ![p] = r]
    BY <1>5, <1>6, <2>1, <2>2, PartedIs, Zenon
  <2>4. peers'[p] = r /\ peers' = [q \in Peers |-> peers'[q]]
        /\ \A q \in Peers \ {p} : peers'[q] = given[q]
    BY <1>5, <2>3
  <2>5. QED
    BY <1>2, <1>3, <1>5, <1>6, <2>2, <2>4, Zenon DEF close
<1>7. CASE active' = TRUE /\ conns' = attach(conns, 0, p) /\ peers' = [given EXCEPT ![p].phase = "served"]
  <2>1. PICK r : r = [peers[p] EXCEPT !.phase = "served"]
    OBVIOUS
  <2>2. peers'[p] = r /\ peers' = [q \in Peers |-> peers'[q]]
        /\ \A q \in Peers \ {p} : peers'[q] = given[q]
    BY <1>5, <1>7, <2>1
  <2>3. conns' = [conns EXCEPT ![0] = Fresh(p)]
    BY <1>1, <1>7, AttachIs
  <2>4. QED
    BY <1>2, <1>3, <1>5, <1>7, <2>1, <2>2, <2>3, Zenon
<1>8. QED
  BY <1>4, <1>6, <1>7, Zenon DEF connect

LEMMA PartedIsPeer ==
    ASSUME NEW r, NEW phase, NEW ends, NEW left
    PROVE  IsPeer(Parted(r, phase, ends, left))
BY DEF IsPeer, Parted

(* n bytes leave the connection in slot i. *)
LEMMA SentIs ==
    ASSUME StateInv, NEW i \in Slots, NEW n, conns[i].peer \in Peers
    PROVE  LET p == conns[i].peer
           IN  Sent(i, n) = [peers EXCEPT ![p] = [peers[p] EXCEPT !.wire = peers[p].wire
                                                                           \o Chunks(conns[i].tx, n)]]
<1>1. PICK p : p = conns[i].peer
  OBVIOUS
<1>2. PICK w : w = peers[p].wire \o Chunks(conns[i].tx, n)
  OBVIOUS
<1>3. Sent(i, n) = [peers EXCEPT ![p].wire = w]
  BY <1>1, <1>2, Zenon DEF Sent
<1>4. [peers EXCEPT ![p].wire = w] = [peers EXCEPT ![p] = [peers[p] EXCEPT !.wire = w]]
  OBVIOUS
<1>5. QED
  BY <1>1, <1>2, <1>3, <1>4, Zenon

(* The types of a state whose connections and peers are as they should be. *)
LEMMA StateAfter ==
    ASSUME StateInv, role' = role, active' \in BOOLEAN,
           frame' = [at |-> frame'.at, slot |-> frame'.slot], frame'.slot \in Slots,
           frame'.at \in {"idle", "on_accept", "flush", "on_write_ready", "input", "on_data", "end",
                          "on_close"},
           conns' = [i \in Slots |-> conns'[i]], peers' = [p \in Peers |-> peers'[p]],
           \A i \in Slots : IsConnection(conns'[i]), \A p \in Peers : IsPeer(peers'[p])
    PROVE  StateInv'
<1>1. Slots' = Slots
  BY DEF Slots
<1>2. QED
  BY <1>1 DEF StateInv, IsConnection, IsPeer

LEMMA FrameMoves ==
    ASSUME StateInv
    PROVE  /\ \A place : Goes(place) => frame' = [at |-> place, slot |-> frame.slot]
           /\ NextSlot => /\ frame' = [at |-> frame'.at, slot |-> frame'.slot]
                          /\ frame'.slot \in Slots /\ frame'.at \in {"flush", "idle"}
<1>1. 0 \in Slots
  BY Sizes
<1>2. QED
  BY <1>1 DEF StateInv, Goes, NextSlot, Idle

LEMMA FlushEffect ==
    ASSUME StateInv, Attached, NEW n \in 0 .. Capacity, Flush(n)
    PROVE  LET i == frame.slot
               p == conns[i].peer
           IN  /\ At("flush") /\ UNCHANGED <<role, active, registry>>
               /\ \/ /\ conns[i].active /\ n \in 0 .. conns[i].tx.count /\ p \in Peers
                     /\ conns' = [conns EXCEPT ![i] = [conns[i] EXCEPT !.tx = popped(conns[i].tx, n)]]
                     /\ peers' = [peers EXCEPT ![p] = [peers[p] EXCEPT
                                    !.wire = peers[p].wire \o Chunks(conns[i].tx, n)]]
                     /\ \E place \in {"on_write_ready", "input"} :
                          frame' = [at |-> place, slot |-> i]
                  \/ NextSlot /\ UNCHANGED <<conns, peers>>
<1>1. PICK i \in Slots : i = frame.slot
  BY DEF StateInv
<1>2. CASE conns[i].active
  <2>1. conns[i].peer \in Peers
    BY <1>2 DEF Attached
  <2>2. /\ n \in 0 .. conns[i].tx.count /\ peers' = Sent(i, n) /\ At("flush")
        /\ conns' = [conns EXCEPT ![i].tx = popped(@, n)]
        /\ Goes(IF n > 0 THEN "on_write_ready" ELSE "input")
        /\ UNCHANGED <<role, active, registry>>
    BY <1>1, <1>2, Zenon DEF Flush, CanFlush
  <2>3. PICK t : t = popped(conns[i].tx, n)
    OBVIOUS
  <2>4. conns' = [conns EXCEPT ![i].tx = t]
    BY <2>2, <2>3, Zenon
  <2>5. conns' = [conns EXCEPT ![i] = [conns[i] EXCEPT !.tx = t]]
    BY <2>4
  <2>6. \E place \in {"on_write_ready", "input"} : frame' = [at |-> place, slot |-> i]
    BY <1>1, <2>2, FrameMoves
  <2>7. QED
    BY <1>1, <1>2, <2>1, <2>2, <2>3, <2>5, <2>6, SentIs, Zenon
<1>3. CASE ~ conns[i].active
  BY <1>1, <1>3, Zenon DEF Flush
<1>4. QED
  BY <1>2, <1>3

(* What write() leaves of k bytes flushed and a part of src taken. *)
Written(i, k, src) == put(popped(conns[i].tx, k), Fitting(popped(conns[i].tx, k), src))

LEMMA WriteEffect ==
    ASSUME StateInv, Attached, NEW i \in Slots, NEW n \in 1 .. Capacity, write(i, n)
    PROVE  LET p == conns[i].peer
               src == [j \in 1 .. n |-> peers[p].written + j]
           IN  /\ conns[i].active /\ p \in Peers /\ AppRuns
               /\ UNCHANGED <<role, active, registry, frame>>
               /\ \E k \in 0 .. Capacity :
                    /\ k \in 0 .. conns[i].tx.count
                    /\ conns' = [conns EXCEPT ![i] = [conns[i] EXCEPT !.tx = Written(i, k, src)]]
                    /\ peers' = [peers EXCEPT ![p] =
                         [[peers[p] EXCEPT !.wire = peers[p].wire \o Chunks(conns[i].tx, k)]
                            EXCEPT !.written =
                              peers[p].written + Len(Fitting(popped(conns[i].tx, k), src))]]
<1> DEFINE p == conns[i].peer
           src == [j \in 1 .. n |-> peers[p].written + j]
<1>1. conns[i].active /\ p \in Peers /\ AppRuns
  BY DEF write, valid, Attached
<1>2. PICK k \in 0 .. Capacity :
        /\ CanFlush(i, k)
        /\ conns' = [conns EXCEPT ![i].tx = Written(i, k, src)]
        /\ peers' = [Sent(i, k) EXCEPT ![p].written =
                       @ + Len(Fitting(popped(conns[i].tx, k), src))]
  BY Zenon DEF write, Written
<1>3. PICK t : t = Written(i, k, src)
  OBVIOUS
<1>4. PICK m : m = Len(Fitting(popped(conns[i].tx, k), src))
  OBVIOUS
<1>5. PICK w : w = peers[p].wire \o Chunks(conns[i].tx, k)
  OBVIOUS
<1>6. Sent(i, k) = [peers EXCEPT ![p] = [peers[p] EXCEPT !.wire = w]]
  BY <1>1, <1>5, SentIs, Zenon
<1>7. PICK q : q = p
  OBVIOUS
<1>8. PICK s : s = Sent(i, k)
  OBVIOUS
<1>9. peers' = [s EXCEPT ![q].written = @ + m]
  BY <1>2, <1>4, <1>7, <1>8, Zenon
<1>10. s = [peers EXCEPT ![q] = [peers[q] EXCEPT !.wire = w]] /\ q \in Peers
  BY <1>1, <1>6, <1>7, <1>8, Zenon
<1>11. PICK r : r = [peers[q] EXCEPT !.wire = w]
  OBVIOUS
<1>12. r.written = peers[q].written
  BY <1>10, <1>11 DEF StateInv
<1>13. s[q] = r
  BY <1>10, <1>11 DEF StateInv
<1>14. peers' = [s EXCEPT ![q] = [r EXCEPT !.written = peers[q].written + m]]
  BY <1>9, <1>12, <1>13
<1>15. peers' = [peers EXCEPT ![q] = [r EXCEPT !.written = peers[q].written + m]]
  BY <1>10, <1>14 DEF StateInv
<1>16. conns' = [conns EXCEPT ![i] = [conns[i] EXCEPT !.tx = t]]
  BY <1>2, <1>3
<1>17. UNCHANGED <<role, active, registry, frame>> /\ k \in 0 .. conns[i].tx.count
  BY <1>2, Zenon DEF write, CanFlush
<1>18. peers' = [peers EXCEPT ![p] = [[peers[p] EXCEPT !.wire = peers[p].wire
                                                                \o Chunks(conns[i].tx, k)]
                                        EXCEPT !.written = peers[p].written + m]]
  BY <1>5, <1>7, <1>11, <1>15, Zenon
<1>19. conns' = [conns EXCEPT ![i] = [conns[i] EXCEPT !.tx = Written(i, k, src)]]
  BY <1>3, <1>16, Zenon
<1>20. QED
  BY <1>1, <1>4, <1>17, <1>18, <1>19, Zenon

LEMMA StateStep ==
    ASSUME StateInv, Attached, [Next]_vars
    PROVE  StateInv'
<1>1. \A p \in Peers : IsPeer(peers[p])
  BY DEF StateInv, IsPeer
<1>2. \A i \in Slots : IsConnection(conns[i])
  BY DEF StateInv, IsConnection
<1>3. 0 \in Slots
  BY Sizes
<1>4. IsConnection(NoConnection) /\ \A p : IsConnection(Fresh(p))
  BY DEF IsConnection, NoConnection, Fresh
<1>5. ASSUME NEW p \in Peers, PollAccepts(p) PROVE StateInv'
  <2>1. PICK i \in Slots :
          /\ conns' = [conns EXCEPT ![i] = IF Listed(add(registry, i), i) THEN Fresh(p)
                                           ELSE NoConnection]
          /\ peers' = [peers EXCEPT ![p] = IF Listed(add(registry, i), i)
                                           THEN [peers[p] EXCEPT !.phase = "served"]
                                           ELSE Parted(peers[p], "served", peers[p].ends, TRUE)]
          /\ frame' = [at |-> "on_accept", slot |-> 0]
          /\ UNCHANGED <<role, active>>
    BY <1>5, PollAcceptsEffect, Zenon
  <2>2. PICK c : c = IF Listed(add(registry, i), i) THEN Fresh(p) ELSE NoConnection
    OBVIOUS
  <2>3. IsConnection(c)
    BY <1>4, <2>2, Zenon
  <2>4. PICK r : r = IF Listed(add(registry, i), i) THEN [peers[p] EXCEPT !.phase = "served"]
                     ELSE Parted(peers[p], "served", peers[p].ends, TRUE)
    OBVIOUS
  <2>5. IsPeer(r)
    BY <1>1, <2>4, PeerChanges, PartedIsPeer, Zenon
  <2>6. conns' = [conns EXCEPT ![i] = c] /\ peers' = [peers EXCEPT ![p] = r]
    BY <2>1, <2>2, <2>4, Zenon
  <2>7. /\ conns' = [s \in Slots |-> conns'[s]] /\ \A s \in Slots : IsConnection(conns'[s])
        /\ peers' = [q \in Peers |-> peers'[q]] /\ \A q \in Peers : IsPeer(peers'[q])
    BY <1>1, <1>2, <2>3, <2>5, <2>6 DEF StateInv
  <2>8. frame' = [at |-> frame'.at, slot |-> frame'.slot] /\ frame'.slot = 0
        /\ frame'.at = "on_accept" /\ active' \in BOOLEAN /\ role' = role
    BY <2>1 DEF StateInv
  <2>9. QED
    BY <1>3, <2>7, <2>8, StateAfter
<1>6. ASSUME NEW p \in Peers, PollRefuses(p) PROVE StateInv'
  <2>1. PICK r : r = Parted(peers[p], "refused", peers[p].ends, peers[p].left)
    OBVIOUS
  <2>2. IsPeer(r)
    BY <2>1, PartedIsPeer, Zenon
  <2>3. peers' = [peers EXCEPT ![p] = r] /\ frame' = [frame EXCEPT !.at = "flush"]
        /\ UNCHANGED <<role, active, conns>>
    BY <1>6, <2>1, PollRefusesEffect, Zenon
  <2>4. peers' = [q \in Peers |-> peers'[q]] /\ \A q \in Peers : IsPeer(peers'[q])
    BY <1>1, <2>2, <2>3 DEF StateInv
  <2>5. QED
    BY <1>2, <2>3, <2>4, StateAfter DEF StateInv
<1>7. CASE PollConnections
  BY <1>1, <1>2, <1>7, FrameMoves, StateAfter DEF PollConnections, StateInv
<1>8. ASSUME NEW n \in 0 .. Capacity, Flush(n) PROVE StateInv'
  <2>1. CASE NextSlot /\ UNCHANGED <<role, active, conns, peers>>
    BY <1>1, <1>2, <2>1, FrameMoves, StateAfter DEF StateInv
  <2>2. CASE conns[frame.slot].active /\ ~ (NextSlot /\ UNCHANGED <<conns, peers>>)
    <3>1. PICK i \in Slots : i = frame.slot
      BY DEF StateInv
    <3>2. PICK p \in Peers : p = conns[i].peer
      BY <2>2, <3>1 DEF Attached
    <3>3. PICK c : c = [conns[i] EXCEPT !.tx = popped(conns[i].tx, n)]
      OBVIOUS
    <3>4. PICK r : r = [peers[p] EXCEPT !.wire = peers[p].wire \o Chunks(conns[i].tx, n)]
      OBVIOUS
    <3>5. IsConnection(c) /\ IsPeer(r)
      BY <1>1, <1>2, <3>3, <3>4, PeerChanges, ConnectionChanges, Zenon
    <3>6. PICK place \in {"on_write_ready", "input"} :
            /\ conns' = [conns EXCEPT ![i] = c] /\ peers' = [peers EXCEPT ![p] = r]
            /\ frame' = [at |-> place, slot |-> i] /\ UNCHANGED <<role, active>>
      <4>1. \E place \in {"on_write_ready", "input"} : frame' = [at |-> place, slot |-> i]
        BY <1>8, <2>2, <3>1, FlushEffect, Zenon
      <4>2. /\ conns' = [conns EXCEPT ![i] = c] /\ peers' = [peers EXCEPT ![p] = r]
            /\ UNCHANGED <<role, active>>
        BY <1>8, <2>2, <3>1, <3>2, <3>3, <3>4, FlushEffect, Zenon
      <4>3. QED
        BY <4>1, <4>2
    <3>7. /\ conns' = [s \in Slots |-> conns'[s]] /\ \A s \in Slots : IsConnection(conns'[s])
          /\ peers' = [q \in Peers |-> peers'[q]] /\ \A q \in Peers : IsPeer(peers'[q])
      BY <1>1, <1>2, <3>5, <3>6 DEF StateInv
    <3>8. QED
      BY <3>6, <3>7, StateAfter DEF StateInv
  <2>3. QED
    BY <1>8, <2>1, <2>2, FlushEffect, Zenon

<1>9. CASE PollInput
  BY <1>1, <1>2, <1>9, FrameMoves, StateAfter DEF PollInput, StateInv
<1>10. CASE PollEnd
  <2>1. CASE closed_by_peer(frame.slot)
    <3>1. PICK p \in Peers : p = conns[frame.slot].peer
      BY <2>1 DEF StateInv, Attached, closed_by_peer
    <3>2. PICK r : r = [peers[p] EXCEPT !.ends = peers[p].ends + 1]
      OBVIOUS
    <3>3. IsPeer(r)
      BY <1>1, <3>2, PeerChanges, Zenon
    <3>4. /\ peers' = [peers EXCEPT ![p].ends = @ + 1] /\ frame' = [at |-> "on_close", slot |-> frame.slot]
          /\ UNCHANGED <<role, active, conns>>
      BY <1>10, <2>1, <3>1, FrameMoves DEF PollEnd
    <3>5. peers' = [peers EXCEPT ![p] = r]
      BY <3>2, <3>4
    <3>6. peers' = [q \in Peers |-> peers'[q]] /\ \A q \in Peers : IsPeer(peers'[q])
      BY <1>1, <3>3, <3>5 DEF StateInv
    <3>7. QED
      BY <1>2, <3>4, <3>6, StateAfter DEF StateInv
  <2>2. CASE ~ closed_by_peer(frame.slot)
    BY <1>1, <1>2, <1>10, <2>2, FrameMoves, StateAfter DEF PollEnd, StateInv
  <2>3. QED
    BY <2>1, <2>2
<1>11. CASE CallbackReturns
  <2>1. CASE At("on_close")
    <3>1. PICK c : c = NoConnection
      OBVIOUS
    <3>2. conns' = [conns EXCEPT ![frame.slot] = c] /\ IsConnection(c)
      BY <1>4, <1>11, <2>1, <3>1, ClosedEffect
    <3>3. conns' = [s \in Slots |-> conns'[s]] /\ \A s \in Slots : IsConnection(conns'[s])
      BY <1>2, <3>2 DEF StateInv
    <3>4. peers' = [p \in Peers |-> peers'[p]] /\ \A p \in Peers : IsPeer(peers'[p])
      BY <1>1, <1>11, <2>1, ClosedEffect, PartedIsPeer
    <3>5. active' = (active /\ role = "server") /\ NextSlot /\ role' = role
      BY <1>11, <2>1, ClosedEffect
    <3>6. active' \in BOOLEAN
      BY <3>5, Zenon
    <3>7. QED
      BY <3>3, <3>4, <3>5, <3>6, FrameMoves, StateAfter
  <2>2. CASE ~ At("on_close")
    <3>1. /\ UNCHANGED <<role, active, conns, peers>>
          /\ \E place \in {"flush", "input", "end"} : Goes(place)
      BY <1>11, <2>2 DEF CallbackReturns
    <3>2. QED
      BY <1>1, <1>2, <3>1, FrameMoves, StateAfter DEF StateInv
  <2>3. QED
    BY <2>1, <2>2
<1>12. ASSUME NEW i \in Slots, NEW n \in 1 .. Capacity, write(i, n) PROVE StateInv'
  <2> DEFINE p == conns[i].peer
             src == [j \in 1 .. n |-> peers[p].written + j]
  <2>1. p \in Peers
    BY <1>12, WriteEffect, Zenon
  <2>3. PICK k \in 0 .. Capacity :
          /\ conns' = [conns EXCEPT ![i] = [conns[i] EXCEPT !.tx = Written(i, k, src)]]
          /\ peers' = [peers EXCEPT ![p] =
               [[peers[p] EXCEPT !.wire = peers[p].wire \o Chunks(conns[i].tx, k)]
                  EXCEPT !.written =
                    peers[p].written + Len(Fitting(popped(conns[i].tx, k), src))]]
    BY <1>12, WriteEffect, Zenon
  <2> HIDE DEF p, src
  <2>4. PICK c : c = [conns[i] EXCEPT !.tx = Written(i, k, src)]
    OBVIOUS
  <2>5. PICK t : t = [peers[p] EXCEPT !.wire = peers[p].wire \o Chunks(conns[i].tx, k)]
    OBVIOUS
  <2>6. PICK r : r = [t EXCEPT !.written = peers[p].written
                                             + Len(Fitting(popped(conns[i].tx, k), src))]
    OBVIOUS
  <2>7. IsConnection(c) /\ IsPeer(r)
    BY <1>1, <1>2, <2>1, <2>4, <2>5, <2>6, PeerChanges, ConnectionChanges, Zenon
  <2>8. conns' = [conns EXCEPT ![i] = c] /\ peers' = [peers EXCEPT ![p] = r]
    BY <2>3, <2>4, <2>5, <2>6, Zenon
  <2>9. /\ conns' = [s \in Slots |-> conns'[s]] /\ \A s \in Slots : IsConnection(conns'[s])
        /\ peers' = [q \in Peers |-> peers'[q]] /\ \A q \in Peers : IsPeer(peers'[q])
    BY <1>1, <1>2, <2>7, <2>8 DEF StateInv
  <2>10. UNCHANGED <<role, active, frame>>
    BY <1>12, WriteEffect, Zenon
  <2>11. QED
    BY <2>9, <2>10, StateAfter DEF StateInv
<1>13. ASSUME NEW i \in Slots, NEW n \in 1 .. MaxInput, read(i, n) \/ read_line(i, n)
       PROVE  StateInv'
  <2>1. PICK p \in Peers : p = conns[i].peer
    BY <1>13 DEF read, read_line, Take, valid, Attached
  <2>2. PICK x \in Nat : x = peers[p].input - n
    <3>1. n \in 1 .. peers[p].input
      BY <1>13, <2>1 DEF read, read_line, Take, valid, input_size
    <3>2. peers[p].input \in Nat
      BY DEF StateInv
    <3>3. QED
      BY <3>1, <3>2
  <2>3. PICK r : r = [peers[p] EXCEPT !.input = x]
    OBVIOUS
  <2>4. IsPeer(r)
    BY <1>1, <2>3, PeerChanges, Zenon
  <2>5. peers' = [peers EXCEPT ![p] = r] /\ UNCHANGED <<role, active, frame>>
    BY <1>13, <2>1, <2>2, <2>3 DEF read, read_line, Take
  <2>6. peers' = [q \in Peers |-> peers'[q]] /\ \A q \in Peers : IsPeer(peers'[q])
    BY <1>1, <2>4, <2>5 DEF StateInv
  <2>7. conns' = [s \in Slots |-> conns'[s]] /\ \A s \in Slots : IsConnection(conns'[s])
    <3>1. CASE UNCHANGED conns
      BY <1>2, <3>1 DEF StateInv
    <3>2. ASSUME NEW l, conns' = [conns EXCEPT ![i].line = l]
          PROVE  conns' = [s \in Slots |-> conns'[s]] /\ \A s \in Slots : IsConnection(conns'[s])
      <4>1. PICK c : c = [conns[i] EXCEPT !.line = l]
        OBVIOUS
      <4>2. IsConnection(c)
        BY <1>2, <4>1, ConnectionChanges, Zenon
      <4>3. conns' = [conns EXCEPT ![i] = c]
        BY <3>2, <4>1
      <4>4. QED
        BY <1>2, <4>2, <4>3 DEF StateInv
    <3>3. \/ UNCHANGED conns \/ conns' = [conns EXCEPT ![i].line = {}]
          \/ conns' = [conns EXCEPT ![i].line = @ \cup {conns[i].peer}]
      BY <1>13 DEF read, read_line
    <3>4. QED
      BY <3>1, <3>2, <3>3
  <2>8. QED
    BY <2>5, <2>6, <2>7, StateAfter DEF StateInv
<1>14. ASSUME NEW i \in Slots, NEW remove \in BOOLEAN, CloseConnection(i, remove) PROVE StateInv'
  <2>1. PICK c : c = NoConnection
    OBVIOUS
  <2>2. conns' = [conns EXCEPT ![i] = c] /\ IsConnection(c)
    BY <1>4, <1>14, <2>1, CloseConnectionEffect
  <2>3. conns' = [s \in Slots |-> conns'[s]] /\ \A s \in Slots : IsConnection(conns'[s])
    BY <1>2, <2>2 DEF StateInv
  <2>4. peers' = [p \in Peers |-> peers'[p]] /\ \A p \in Peers : IsPeer(peers'[p])
    <3>1. \A p \in Peers : \/ peers'[p] = peers[p]
                           \/ peers'[p] = Parted(peers[p], peers[p].phase, peers[p].ends, TRUE)
      BY <1>14, CloseConnectionEffect, Zenon
    <3>2. peers' = [p \in Peers |-> peers'[p]]
      BY <1>14, CloseConnectionEffect
    <3>3. QED
      BY <1>1, <3>1, <3>2, PartedIsPeer, Zenon
  <2>5. UNCHANGED <<role, active, frame>>
    BY <1>14, CloseConnectionEffect
  <2>6. QED
    BY <2>3, <2>4, <2>5, StateAfter DEF StateInv
<1>15. CASE prune_invalid \/ listen \/ UNCHANGED vars
  BY <1>1, <1>2, <1>15, StateAfter DEF prune_invalid, listen, vars, StateInv
<1>16. CASE Close
  <2>1. conns' = [s \in Slots |-> conns'[s]] /\ \A s \in Slots : IsConnection(conns'[s])
    BY <1>4, <1>16, CloseEffect
  <2>2. peers' = [p \in Peers |-> peers'[p]] /\ \A p \in Peers : IsPeer(peers'[p])
    <3>1. \A p \in Peers :
            \/ peers'[p] = peers[p]
            \/ peers'[p] = Parted(peers[p], "refused", peers[p].ends, peers[p].left)
            \/ peers'[p] = Parted(peers[p], peers[p].phase, peers[p].ends, TRUE)
      BY <1>16, CloseEffect, Zenon
    <3>2. peers' = [p \in Peers |-> peers'[p]]
      BY <1>16, CloseEffect
    <3>3. QED
      BY <1>1, <3>1, <3>2, PartedIsPeer, Zenon
  <2>3. UNCHANGED <<role, frame>> /\ active' = FALSE
    BY <1>16, CloseEffect
  <2>4. QED
    BY <2>1, <2>2, <2>3, StateAfter DEF StateInv
<1>17. ASSUME NEW p \in Peers, connect(p) PROVE StateInv'
  <2>1. PICK c : c = conns'[0]
    OBVIOUS
  <2>2. IsConnection(c) /\ conns' = [conns EXCEPT ![0] = c]
    <3>1. \E d : IsConnection(d) /\ conns' = [conns EXCEPT ![0] = d]
      BY <1>4, <1>17, ConnectEffect, Zenon
    <3>2. QED
      BY <1>3, <2>1, <3>1 DEF StateInv
  <2>3. conns' = [s \in Slots |-> conns'[s]] /\ \A s \in Slots : IsConnection(conns'[s])
    BY <1>2, <2>2 DEF StateInv
  <2>4. IsPeer(peers'[p])
    <3>1. \/ peers'[p] = Parted(peers[p], "served", 1, peers[p].left)
          \/ peers'[p] = [peers[p] EXCEPT !.phase = "served"]
      BY <1>17, ConnectEffect, Zenon
    <3>2. IsPeer([peers[p] EXCEPT !.phase = "served"])
      BY <1>1, PeerChanges, Zenon
    <3>3. QED
      BY <3>1, <3>2, PartedIsPeer, Zenon
  <2>5. ASSUME NEW q \in Peers \ {p} PROVE IsPeer(peers'[q])
    <3>1. \/ peers'[q] = peers[q]
          \/ peers'[q] = Parted(peers[q], peers[q].phase, peers[q].ends, TRUE)
      BY <1>17, ConnectEffect, Zenon
    <3>2. QED
      BY <1>1, <3>1, PartedIsPeer, Zenon
  <2>6. peers' = [q \in Peers |-> peers'[q]] /\ UNCHANGED <<role, frame>> /\ active' \in BOOLEAN
    BY <1>17, ConnectEffect
  <2>7. QED
    BY <2>3, <2>4, <2>5, <2>6, StateAfter DEF StateInv
<1>18. ASSUME NEW p \in Peers, Arrive(p) \/ PeerSends(p) \/ PeerEnds(p) PROVE StateInv'
  <2>1. \E r : IsPeer(r) /\ peers' = [peers EXCEPT ![p] = r]
    <3>1. CASE Arrive(p)
      <4>1. PICK r : r = [peers[p] EXCEPT !.phase = "waiting"]
        OBVIOUS
      <4>2. IsPeer(r) /\ peers' = [peers EXCEPT ![p].phase = "waiting"]
        BY <1>1, <3>1, <4>1, PeerChanges, Zenon DEF Arrive
      <4>3. QED
        BY <4>1, <4>2
    <3>2. CASE PeerSends(p)
      <4>1. PICK x \in Nat : x = peers[p].input + 1
        BY DEF StateInv
      <4>2. PICK r : r = [peers[p] EXCEPT !.input = x]
        OBVIOUS
      <4>3. IsPeer(r) /\ peers' = [peers EXCEPT ![p].input = @ + 1]
        BY <1>1, <3>2, <4>2, PeerChanges, Zenon DEF PeerSends
      <4>4. QED
        BY <4>1, <4>2, <4>3
    <3>3. CASE PeerEnds(p)
      <4>1. PICK r : r = [peers[p] EXCEPT !.ended = TRUE]
        OBVIOUS
      <4>2. IsPeer(r) /\ peers' = [peers EXCEPT ![p].ended = TRUE]
        BY <1>1, <3>3, <4>1, PeerChanges, Zenon DEF PeerEnds
      <4>3. QED
        BY <4>1, <4>2
    <3>4. QED
      BY <1>18, <3>1, <3>2, <3>3
  <2>2. PICK r : IsPeer(r) /\ peers' = [peers EXCEPT ![p] = r]
    BY <2>1
  <2>3. peers' = [q \in Peers |-> peers'[q]] /\ \A q \in Peers : IsPeer(peers'[q])
    BY <1>1, <2>2 DEF StateInv
  <2>4. UNCHANGED <<role, active, conns, frame>>
    BY <1>18 DEF Arrive, PeerSends, PeerEnds
  <2>5. QED
    BY <1>2, <2>3, <2>4, StateAfter DEF StateInv
<1>19. QED
  BY <1>5, <1>6, <1>7, <1>8, <1>9, <1>10, <1>11, <1>12, <1>13, <1>14, <1>15, <1>16, <1>17, <1>18
     DEF Next, Poll, Application

-----------------------------------------------------------------------------
(* Ends. *)

EndsAgree == Attached /\ PeersAgree /\ EndToldOnce

(* A step that neither attaches nor closes a connection, nor tells an end.  *)
LEMMA EndsKept ==
    ASSUME StateInv, EndsAgree, role' = role,
           \A i \in Slots : (conns'[i].active <=> conns[i].active) /\ conns'[i].peer = conns[i].peer,
           \A p \in Peers :
              /\ peers'[p].phase = peers[p].phase /\ peers'[p].ends = peers[p].ends
              /\ (peers'[p].left <=> peers[p].left) /\ (peers[p].ended => peers'[p].ended)
              /\ peers[p].ends = 1 /\ peers[p].input = 0 => peers'[p].input = 0
              /\ peers[p].phase # "served" =>
                   peers'[p].wire = peers[p].wire /\ peers'[p].written = peers[p].written,
           frame'.at = "on_close" <=> frame.at = "on_close",
           frame'.at = "on_close" => frame'.slot = frame.slot
    PROVE  EndsAgree'
<1>1. Slots' = Slots
  BY DEF Slots
<1>2. Attached'
  BY <1>1 DEF EndsAgree, Attached, At
<1>3. PeersAgree'
  BY DEF EndsAgree, PeersAgree
<1>4. EndToldOnce'
  <2> SUFFICES ASSUME NEW p \in Peers
               PROVE  /\ peers'[p].ends <= 1
                      /\ peers'[p].phase = "served" /\ ~ Served(p)' =>
                            peers'[p].ends = 1 \/ peers'[p].left
                      /\ peers'[p].ended /\ peers'[p].ends = 1 => peers'[p].input = 0
    BY DEF EndToldOnce
  <2>1. Served(p)' <=> Served(p)
    BY <1>1 DEF Served
  <2>2. peers[p].ends = 1 => peers[p].input = 0
    BY DEF EndsAgree, PeersAgree, EndToldOnce
  <2>3. QED
    BY <2>1, <2>2 DEF EndsAgree, EndToldOnce
<1>5. QED
  BY <1>2, <1>3, <1>4 DEF EndsAgree

(* A step that gives a peer no other phase and closes the connections in S, *)
(* whose ends have been told or are given up.                               *)
LEMMA EndsClosed ==
    ASSUME StateInv, EndsAgree, role' = role, NEW S \in SUBSET Slots,
           frame'.at = "on_close" => frame.at = "on_close" /\ frame'.slot = frame.slot,
           frame.at = "on_close" => frame'.at = "on_close" \/ frame.slot \in S,
           \A i \in Slots : IF i \in S THEN ~ conns'[i].active
                            ELSE (conns'[i].active <=> conns[i].active)
                                 /\ conns'[i].peer = conns[i].peer,
           \A p \in Peers :
              IF Of(p, S)
              THEN /\ peers'[p].phase = peers[p].phase /\ peers'[p].ends = peers[p].ends
                   /\ peers'[p].ended /\ peers'[p].input = 0
                   /\ peers'[p].left \/ peers[p].ends = 1
              ELSE peers'[p] = peers[p]
    PROVE  EndsAgree'
<1>1. Slots' = Slots
  BY DEF Slots
<1>2. \A p \in Peers : peers'[p].phase = peers[p].phase /\ peers'[p].ends = peers[p].ends
  OBVIOUS
<1>3. \A p \in Peers : Of(p, S) => peers[p].phase = "served"
  BY DEF Of, EndsAgree, Attached
<1>4. Attached'
  BY <1>1, <1>2 DEF EndsAgree, Attached, At
<1>5. PeersAgree'
  BY <1>3 DEF EndsAgree, PeersAgree
<1>6. EndToldOnce'
  <2> SUFFICES ASSUME NEW p \in Peers
               PROVE  /\ peers'[p].ends <= 1
                      /\ peers'[p].phase = "served" /\ ~ Served(p)' =>
                            peers'[p].ends = 1 \/ peers'[p].left
                      /\ peers'[p].ended /\ peers'[p].ends = 1 => peers'[p].input = 0
    BY DEF EndToldOnce
  <2>1. CASE Of(p, S)
    BY <2>1 DEF EndsAgree, EndToldOnce
  <2>2. CASE ~ Of(p, S)
    <3>1. Served(p) => Served(p)'
      BY <1>1, <2>2 DEF Served, Of
    <3>2. QED
      BY <2>2, <3>1 DEF EndsAgree, EndToldOnce
  <2>3. QED
    BY <2>1, <2>2
<1>7. QED
  BY <1>4, <1>5, <1>6 DEF EndsAgree

(* The role is chosen once. *)
LEMMA GoesOn ==
    ASSUME [Next]_vars
    PROVE  role' = role
<1>1. CASE Poll
  BY <1>1 DEF Poll, PollAccepts, PollRefuses, PollConnections, Flush, PollInput, PollEnd,
              CallbackReturns
<1>2. CASE Application
  <2>1. ASSUME NEW i \in Slots, NEW n, write(i, n) PROVE role' = role
    BY <2>1, Zenon DEF write
  <2>2. ASSUME NEW i \in Slots, NEW n, read(i, n) \/ read_line(i, n) PROVE role' = role
    BY <2>2 DEF read, read_line, Take
  <2>3. ASSUME NEW i \in Slots, NEW remove, CloseConnection(i, remove) PROVE role' = role
    BY <2>3 DEF CloseConnection
  <2>4. CASE prune_invalid \/ Close \/ listen
    BY <2>4 DEF prune_invalid, Close, listen
  <2>5. ASSUME NEW p, connect(p) PROVE role' = role
    BY <2>5 DEF connect
  <2>6. QED
    BY <1>2, <2>1, <2>2, <2>3, <2>4, <2>5 DEF Application
<1>3. QED
  BY <1>1, <1>2 DEF Next, Arrive, PeerSends, PeerEnds, vars

LEMMA EndsStep ==
    ASSUME AppUse = "careful", StateInv, EndsAgree, [Next]_vars
    PROVE  EndsAgree'
<1>1. Slots' = Slots /\ role' = role
  <2>1. role' = role
    BY GoesOn
  <2>2. QED
    BY <2>1 DEF Slots
<1>2. Attached
  BY DEF EndsAgree
<1>3. ASSUME NEW p \in Peers, PollAccepts(p) PROVE EndsAgree'
  <2>1. PICK i \in Slots :
          /\ role = "server" /\ At("idle") /\ ~ conns[i].active /\ peers[p].phase = "waiting"
          /\ conns' = [conns EXCEPT ![i] = IF Listed(add(registry, i), i) THEN Fresh(p)
                                           ELSE NoConnection]
          /\ peers' = [peers EXCEPT ![p] = IF Listed(add(registry, i), i)
                                           THEN [peers[p] EXCEPT !.phase = "served"]
                                           ELSE Parted(peers[p], "served", peers[p].ends, TRUE)]
          /\ frame' = [at |-> "on_accept", slot |-> 0]
    BY <1>3, PollAcceptsEffect, Zenon
  <2>2. ~ Served(p) /\ peers[p].ends = 0
    BY <2>1 DEF EndsAgree, Attached, PeersAgree, Served
  <2>3. frame.at = "idle" /\ frame'.at = "on_accept"
    BY <2>1 DEF At
  <2>4. CASE Listed(add(registry, i), i)
    <3>1. /\ conns' = [conns EXCEPT ![i] = Fresh(p)]
          /\ peers' = [peers EXCEPT ![p] = [peers[p] EXCEPT !.phase = "served"]]
      BY <2>1, <2>4, Zenon
    <3>2. /\ conns'[i].active /\ conns'[i].peer = p
          /\ \A j \in Slots : j # i => conns'[j] = conns[j]
      BY <3>1 DEF StateInv, Fresh
    <3>3. /\ peers'[p].phase = "served" /\ peers'[p].ends = peers[p].ends
          /\ peers'[p].ended = peers[p].ended
          /\ \A q \in Peers : q # p => peers'[q] = peers[q]
      BY <3>1 DEF StateInv
    <3>4. Attached'
      <4> SUFFICES ASSUME NEW j \in Slots, conns'[j].active
                   PROVE  /\ conns'[j].peer \in Peers /\ peers'[conns'[j].peer].phase = "served"
                          /\ \A k \in Slots \ {j} :
                               conns'[k].active => conns'[k].peer # conns'[j].peer
                          /\ peers'[conns'[j].peer].ends = 0
        BY <1>1, <2>3 DEF Attached, At
      <4>1. \A k \in Slots \ {i} : conns'[k].active => conns[k].active /\ conns'[k].peer = conns[k].peer
                                                       /\ conns[k].peer # p
        BY <2>2, <3>2 DEF Served
      <4>2. CASE j = i
        BY <2>2, <3>2, <3>3, <4>1, <4>2
      <4>3. CASE j # i
        <5>1. conns[j].active /\ conns'[j] = conns[j] /\ conns[j].peer # p
          BY <3>2, <4>1, <4>3
        <5>2. /\ conns[j].peer \in Peers /\ peers[conns[j].peer].phase = "served"
              /\ \A k \in Slots \ {j} : conns[k].active => conns[k].peer # conns[j].peer
              /\ peers[conns[j].peer].ends = 0
          BY <1>2, <2>3, <5>1 DEF Attached, At
        <5>3. QED
          BY <3>2, <3>3, <4>1, <5>1, <5>2
      <4>4. QED
        BY <4>2, <4>3
    <3>5. PeersAgree'
      BY <2>2, <3>3 DEF EndsAgree, PeersAgree
    <3>6. Served(p)' /\ \A q \in Peers : q # p /\ Served(q) => Served(q)'
      BY <1>1, <2>1, <3>2 DEF Served
    <3>7. EndToldOnce'
      BY <2>2, <3>3, <3>6 DEF EndsAgree, EndToldOnce
    <3>8. QED
      BY <3>4, <3>5, <3>7 DEF EndsAgree
  <2>5. CASE ~ Listed(add(registry, i), i)
    <3>1. /\ conns' = [conns EXCEPT ![i] = NoConnection]
          /\ peers' = [peers EXCEPT ![p] = Parted(peers[p], "served", peers[p].ends, TRUE)]
      BY <2>1, <2>5, Zenon
    <3>2. ~ conns'[i].active /\ \A j \in Slots : j # i => conns'[j] = conns[j]
      BY <3>1 DEF StateInv, NoConnection
    <3>3. /\ peers'[p].phase = "served" /\ peers'[p].ends = 0 /\ peers'[p].left
          /\ \A q \in Peers : q # p => peers'[q] = peers[q]
      BY <2>2, <3>1 DEF StateInv, Parted
    <3>4. Attached'
      <4> SUFFICES ASSUME NEW j \in Slots, conns'[j].active
                   PROVE  /\ conns'[j].peer \in Peers /\ peers'[conns'[j].peer].phase = "served"
                          /\ \A k \in Slots \ {j} :
                               conns'[k].active => conns'[k].peer # conns'[j].peer
                          /\ peers'[conns'[j].peer].ends = 0
        BY <1>1, <2>3 DEF Attached, At
      <4>1. \A k \in Slots : conns'[k].active => conns[k].active /\ conns'[k].peer = conns[k].peer
                                                 /\ conns[k].peer # p
        BY <2>2, <3>2 DEF Served
      <4>2. /\ conns[j].peer \in Peers /\ peers[conns[j].peer].phase = "served"
            /\ \A k \in Slots \ {j} : conns[k].active => conns[k].peer # conns[j].peer
            /\ peers[conns[j].peer].ends = 0
        BY <1>2, <2>3, <4>1 DEF Attached, At
      <4>3. QED
        BY <3>3, <4>1, <4>2
    <3>5. PeersAgree'
      BY <3>3 DEF EndsAgree, PeersAgree
    <3>6. \A q \in Peers : q # p /\ Served(q) => Served(q)'
      BY <1>1, <2>1, <3>2 DEF Served
    <3>7. EndToldOnce'
      BY <3>3, <3>6 DEF EndsAgree, EndToldOnce
    <3>8. QED
      BY <3>4, <3>5, <3>7 DEF EndsAgree
  <2>6. QED
    BY <2>4, <2>5
<1>4. ASSUME NEW p \in Peers, PollRefuses(p) PROVE EndsAgree'
  <2>1. /\ peers[p].phase = "waiting" /\ At("idle") /\ UNCHANGED conns
        /\ peers' = [peers EXCEPT ![p] = Parted(peers[p], "refused", peers[p].ends, peers[p].left)]
        /\ frame' = [frame EXCEPT !.at = "flush"]
    BY <1>4, PollRefusesEffect
  <2>2. ~ Served(p) /\ peers[p].ends = 0
    BY <2>1 DEF EndsAgree, Attached, PeersAgree, Served
  <2>3. /\ peers'[p].phase = "refused" /\ peers'[p].ends = 0 /\ peers'[p].wire = <<>>
        /\ peers'[p].written = 0 /\ \A q \in Peers : q # p => peers'[q] = peers[q]
    BY <2>1, <2>2 DEF StateInv, Parted
  <2>4. frame.at = "idle" /\ frame'.at = "flush"
    BY <2>1 DEF At, StateInv
  <2>5. Attached'
    BY <1>1, <2>1, <2>2, <2>3, <2>4 DEF EndsAgree, Attached, Served, At
  <2>6. PeersAgree'
    BY <2>3 DEF EndsAgree, PeersAgree
  <2>7. EndToldOnce'
    BY <1>1, <2>1, <2>3 DEF EndsAgree, EndToldOnce, Served
  <2>8. QED
    BY <2>5, <2>6, <2>7 DEF EndsAgree
<1>5. CASE PollConnections
  BY <1>1, <1>5, FrameMoves, EndsKept DEF PollConnections, At
<1>6. ASSUME NEW n \in 0 .. Capacity, Flush(n) PROVE EndsAgree'
  <2>1. CASE NextSlot /\ UNCHANGED <<conns, peers>>
    <3>1. frame.at = "flush"
      BY <1>6 DEF Flush, At
    <3>2. QED
      BY <1>1, <2>1, <3>1, FrameMoves, EndsKept
  <2>2. CASE ~ (NextSlot /\ UNCHANGED <<conns, peers>>)
    <3>1. PICK i \in Slots : i = frame.slot
      BY DEF StateInv
    <3>2. PICK p \in Peers : p = conns[i].peer
      BY <1>2, <1>6, <2>2, <3>1, FlushEffect, Zenon
    <3>3. PICK w : w = peers[p].wire \o Chunks(conns[i].tx, n)
      OBVIOUS
    <3>4. PICK t : t = popped(conns[i].tx, n)
      OBVIOUS
    <3>5. /\ conns' = [conns EXCEPT ![i] = [conns[i] EXCEPT !.tx = t]]
          /\ peers' = [peers EXCEPT ![p] = [peers[p] EXCEPT !.wire = w]]
          /\ conns[i].active
      BY <1>2, <1>6, <2>2, <3>1, <3>2, <3>3, <3>4, FlushEffect, Zenon
    <3>6. frame.at = "flush" /\ frame'.at # "on_close"
      <4>1. At("flush") /\ \E place \in {"on_write_ready", "input"} :
                             frame' = [at |-> place, slot |-> frame.slot]
        BY <1>2, <1>6, <2>2, FlushEffect, Zenon
      <4>2. QED
        BY <4>1 DEF At
    <3>7. \A s \in Slots : conns'[s].active = conns[s].active /\ conns'[s].peer = conns[s].peer
      BY <3>5 DEF StateInv
    <3>8. peers[p].phase = "served"
      BY <1>2, <3>2, <3>5 DEF Attached
    <3>9. \A q \in Peers :
            /\ peers'[q].phase = peers[q].phase /\ peers'[q].ends = peers[q].ends
            /\ peers'[q].left = peers[q].left /\ peers'[q].ended = peers[q].ended
            /\ peers'[q].input = peers[q].input /\ (q # p => peers'[q] = peers[q])
      BY <3>5 DEF StateInv
    <3>10. QED
      BY <1>1, <3>6, <3>7, <3>8, <3>9, EndsKept
  <2>3. QED
    BY <2>1, <2>2
<1>7. CASE PollInput
  <2>1. frame.at = "input" /\ frame'.at \in {"on_data", "end"} /\ UNCHANGED <<conns, peers>>
    BY <1>7, FrameMoves DEF PollInput, At
  <2>2. QED
    BY <1>1, <2>1, EndsKept
<1>8. CASE PollEnd
  <2>1. frame.at = "end" /\ UNCHANGED conns
    BY <1>8 DEF PollEnd, At
  <2>2. CASE ~ closed_by_peer(frame.slot)
    BY <1>1, <1>8, <2>1, <2>2, FrameMoves, EndsKept DEF PollEnd
  <2>3. CASE closed_by_peer(frame.slot)
    <3>1. PICK i \in Slots : i = frame.slot /\ conns[i].active
      BY <2>3 DEF StateInv, closed_by_peer
    <3>2. PICK p \in Peers : p = conns[i].peer
      BY <1>2, <3>1 DEF Attached
    <3>3. peers[p].ended /\ peers[p].input = 0
      BY <2>3, <3>1, <3>2 DEF closed_by_peer, connected, StateInv
    <3>4. peers[p].ends = 0 /\ peers[p].phase = "served"
      BY <1>2, <2>1, <3>1, <3>2 DEF Attached, At
    <3>5. peers' = [peers EXCEPT ![p].ends = @ + 1] /\ frame' = [at |-> "on_close", slot |-> i]
      BY <1>8, <2>3, <3>1, <3>2, FrameMoves DEF PollEnd
    <3>6. /\ peers'[p].ends = 1 /\ peers'[p].phase = "served" /\ peers'[p].ended
          /\ peers'[p].input = 0 /\ \A q \in Peers : q # p => peers'[q] = peers[q]
      BY <3>3, <3>4, <3>5 DEF StateInv
    <3>7. frame'.at = "on_close" /\ frame'.slot = i
      BY <3>5
    <3>8. Attached'
      BY <1>1, <2>1, <3>1, <3>2, <3>6, <3>7 DEF EndsAgree, Attached, At
    <3>9. PeersAgree'
      BY <3>6 DEF EndsAgree, PeersAgree
    <3>10. EndToldOnce'
      BY <1>1, <2>1, <3>6 DEF EndsAgree, EndToldOnce, Served
    <3>11. QED
      BY <3>8, <3>9, <3>10 DEF EndsAgree
  <2>4. QED
    BY <2>2, <2>3
<1>9. CASE CallbackReturns
  <2>1. CASE At("on_close")
    <3>1. /\ conns' = [conns EXCEPT ![frame.slot] = NoConnection]
          /\ peers' = [p \in Peers |-> IF Of(p, {frame.slot})
                                       THEN Parted(peers[p], peers[p].phase, peers[p].ends,
                                                   peers[p].left)
                                       ELSE peers[p]]
          /\ frame'.at \in {"flush", "idle"}
      BY <1>9, <2>1, ClosedEffect, FrameMoves
    <3>2. frame.slot \in Slots
      BY DEF StateInv
    <3>3. \A i \in Slots : IF i \in {frame.slot} THEN ~ conns'[i].active
                           ELSE (conns'[i].active <=> conns[i].active)
                                /\ conns'[i].peer = conns[i].peer
      BY <3>1, <3>2 DEF StateInv, NoConnection
    <3>4. ASSUME NEW p \in Peers
          PROVE  IF Of(p, {frame.slot})
                 THEN /\ peers'[p].phase = peers[p].phase /\ peers'[p].ends = peers[p].ends
                      /\ peers'[p].ended /\ peers'[p].input = 0
                      /\ peers'[p].left \/ peers[p].ends = 1
                 ELSE peers'[p] = peers[p]
      <4>1. CASE Of(p, {frame.slot})
        <5>1. peers'[p] = Parted(peers[p], peers[p].phase, peers[p].ends, peers[p].left)
          BY <3>1, <4>1
        <5>2. peers[p].ends = 1
          BY <1>2, <2>1, <3>2, <4>1 DEF Of, Attached
        <5>3. QED
          BY <4>1, <5>1, <5>2 DEF Parted
      <4>2. CASE ~ Of(p, {frame.slot})
        BY <3>1, <4>2
      <4>3. QED
        BY <4>1, <4>2
    <3>5. QED
      BY <1>1, <3>1, <3>2, <3>3, <3>4, EndsClosed
  <2>2. CASE ~ At("on_close")
    <3>1. frame.at # "on_close" /\ frame'.at # "on_close" /\ UNCHANGED <<conns, peers>>
      BY <1>9, <2>2, FrameMoves DEF CallbackReturns, At
    <3>2. QED
      BY <1>1, <3>1, EndsKept
  <2>3. QED
    BY <2>1, <2>2
<1>10. ASSUME NEW i \in Slots, NEW n \in 1 .. Capacity, write(i, n) PROVE EndsAgree'
  <2> DEFINE p == conns[i].peer
             src == [j \in 1 .. n |-> peers[p].written + j]
  <2>1. p \in Peers /\ peers[p].phase = "served"
    BY <1>2, <1>10 DEF write, valid, Attached
  <2>2. PICK k \in 0 .. Capacity :
          /\ conns' = [conns EXCEPT ![i] = [conns[i] EXCEPT !.tx = Written(i, k, src)]]
          /\ peers' = [peers EXCEPT ![p] =
               [[peers[p] EXCEPT !.wire = peers[p].wire \o Chunks(conns[i].tx, k)]
                  EXCEPT !.written =
                    peers[p].written + Len(Fitting(popped(conns[i].tx, k), src))]]
    BY <1>2, <1>10, WriteEffect, Zenon
  <2> HIDE DEF p, src
  <2>3. PICK w : w = peers[p].wire \o Chunks(conns[i].tx, k)
    OBVIOUS
  <2>4. PICK m : m = peers[p].written + Len(Fitting(popped(conns[i].tx, k), src))
    OBVIOUS
  <2>5. PICK t : t = Written(i, k, src)
    OBVIOUS
  <2>6. /\ conns' = [conns EXCEPT ![i] = [conns[i] EXCEPT !.tx = t]]
        /\ peers' = [peers EXCEPT ![p] = [[peers[p] EXCEPT !.wire = w] EXCEPT !.written = m]]
    BY <2>2, <2>3, <2>4, <2>5, Zenon
  <2>7. \A s \in Slots : conns'[s].active = conns[s].active /\ conns'[s].peer = conns[s].peer
    BY <2>6 DEF StateInv
  <2>8. \A q \in Peers :
          /\ peers'[q].phase = peers[q].phase /\ peers'[q].ends = peers[q].ends
          /\ peers'[q].left = peers[q].left /\ peers'[q].ended = peers[q].ended
          /\ peers'[q].input = peers[q].input /\ (q # p => peers'[q] = peers[q])
    BY <2>1, <2>6 DEF StateInv
  <2>9. UNCHANGED frame
    BY <1>10 DEF write
  <2>10. QED
    BY <1>1, <2>1, <2>7, <2>8, <2>9, EndsKept
<1>11. ASSUME NEW i \in Slots, NEW n \in 1 .. MaxInput, read(i, n) \/ read_line(i, n)
       PROVE  EndsAgree'
  <2>1. PICK p \in Peers : p = conns[i].peer /\ peers[p].phase = "served"
    BY <1>2, <1>11 DEF read, read_line, Take, valid, Attached
  <2>2. n \in 1 .. peers[p].input /\ peers' = [peers EXCEPT ![p].input = @ - n] /\ UNCHANGED frame
    BY <1>11, <2>1 DEF read, read_line, Take, valid, input_size
  <2>3. peers[p].input # 0
    BY <2>2 DEF StateInv
  <2>4. \A q \in Peers :
          /\ peers'[q].phase = peers[q].phase /\ peers'[q].ends = peers[q].ends
          /\ peers'[q].left = peers[q].left /\ peers'[q].ended = peers[q].ended
          /\ q # p => peers'[q] = peers[q]
    BY <2>2 DEF StateInv
  <2>5. \A s \in Slots : conns'[s].active = conns[s].active /\ conns'[s].peer = conns[s].peer
    <3>1. ASSUME NEW l, conns' = [conns EXCEPT ![i].line = l]
          PROVE  \A s \in Slots : conns'[s].active = conns[s].active
                                  /\ conns'[s].peer = conns[s].peer
      BY <3>1 DEF StateInv
    <3>2. \/ UNCHANGED conns \/ conns' = [conns EXCEPT ![i].line = {}]
          \/ conns' = [conns EXCEPT ![i].line = @ \cup {conns[i].peer}]
      BY <1>11 DEF read, read_line
    <3>3. QED
      BY <3>1, <3>2
  <2>6. QED
    BY <1>1, <2>1, <2>2, <2>3, <2>4, <2>5, EndsKept
<1>12. ASSUME NEW i \in Slots, NEW remove \in BOOLEAN, CloseConnection(i, remove)
       PROVE  EndsAgree'
  <2>1. /\ conns' = [conns EXCEPT ![i] = NoConnection] /\ UNCHANGED frame
        /\ peers' = [p \in Peers |-> IF Of(p, {i})
                                     THEN Parted(peers[p], peers[p].phase, peers[p].ends, TRUE)
                                     ELSE peers[p]]
    BY <1>12, CloseConnectionEffect
  <2>2. \A j \in Slots : IF j \in {i} THEN ~ conns'[j].active
                         ELSE (conns'[j].active <=> conns[j].active) /\ conns'[j].peer = conns[j].peer
    BY <2>1 DEF StateInv, NoConnection
  <2>3. \A p \in Peers :
          IF Of(p, {i}) THEN /\ peers'[p].phase = peers[p].phase /\ peers'[p].ends = peers[p].ends
                             /\ peers'[p].ended /\ peers'[p].input = 0
                             /\ peers'[p].left \/ peers[p].ends = 1
          ELSE peers'[p] = peers[p]
    BY <2>1 DEF Parted
  <2>4. QED
    BY <1>1, <2>1, <2>2, <2>3, EndsClosed
<1>13. CASE prune_invalid \/ listen \/ UNCHANGED vars
  BY <1>1, <1>13, EndsKept DEF prune_invalid, listen, vars
<1>14. CASE Close
  <2>1. /\ conns' = [i \in Slots |-> NoConnection] /\ UNCHANGED frame
        /\ peers' = [p \in Peers |->
                       IF peers[p].phase = "waiting"
                       THEN Parted(peers[p], "refused", peers[p].ends, peers[p].left)
                       ELSE IF Of(p, Slots) THEN Parted(peers[p], peers[p].phase, peers[p].ends, TRUE)
                            ELSE peers[p]]
    BY <1>14, CloseEffect
  <2>2. \A i \in Slots : ~ conns'[i].active
    BY <2>1 DEF NoConnection
  <2>3. Attached'
    BY <1>1, <2>2 DEF Attached
  <2>4. \A p \in Peers :
          /\ peers'[p].ends = peers[p].ends
          /\ peers[p].phase = "waiting" => /\ peers'[p].phase = "refused" /\ peers'[p].wire = <<>>
                                           /\ peers'[p].written = 0
          /\ peers[p].phase # "waiting" /\ Of(p, Slots) =>
               peers'[p].left /\ peers'[p].ended /\ peers'[p].input = 0
               /\ peers'[p].phase = peers[p].phase
          /\ peers[p].phase # "waiting" /\ ~ Of(p, Slots) => peers'[p] = peers[p]
    BY <2>1 DEF Parted
  <2>5. \A p \in Peers : /\ Of(p, Slots) <=> Served(p)
                         /\ Served(p) => peers[p].phase = "served"
    BY <1>2 DEF Of, Served, Attached
  <2>6. PeersAgree'
    BY <2>4, <2>5 DEF EndsAgree, PeersAgree
  <2>7. EndToldOnce'
    BY <2>4, <2>5 DEF EndsAgree, EndToldOnce, PeersAgree
  <2>8. QED
    BY <2>3, <2>6, <2>7 DEF EndsAgree
<1>15. ASSUME NEW p \in Peers, connect(p) PROVE EndsAgree'
  <2>1. /\ role = "client" /\ peers[p].phase = "new" /\ ~ Of(p, {0}) /\ ~ At("on_close")
        /\ UNCHANGED frame
        /\ \A q \in Peers \ {p} : peers'[q] =
             IF Of(q, {0}) THEN Parted(peers[q], peers[q].phase, peers[q].ends, TRUE) ELSE peers[q]
    BY <1>2, <1>15, ConnectEffect
  <2>2. Slots = {0} /\ 0 \in Slots
    BY <2>1, Sizes
  <2>3. frame.at # "on_close" /\ frame'.at # "on_close"
    BY <2>1 DEF At
  <2>4. peers[p].ends = 0 /\ peers[p].wire = <<>> /\ peers[p].written = 0
    BY <2>1 DEF EndsAgree, PeersAgree
  <2>5. \A q \in Peers \ {p} :
          IF Of(q, {0}) THEN /\ peers'[q].phase = peers[q].phase /\ peers'[q].ends = peers[q].ends
                             /\ peers'[q].ended /\ peers'[q].input = 0 /\ peers'[q].left
                             /\ peers[q].phase = "served"
          ELSE peers'[q] = peers[q] /\ ~ Served(q)
    <3>1. \A q \in Peers : Of(q, {0}) <=> Served(q)
      BY <2>2 DEF Of, Served
    <3>2. \A q \in Peers : Of(q, {0}) => peers[q].phase = "served"
      BY <1>2, <2>2 DEF Of, Attached
    <3>3. ASSUME NEW q \in Peers \ {p}, Of(q, {0})
          PROVE  /\ peers'[q].phase = peers[q].phase /\ peers'[q].ends = peers[q].ends
                 /\ peers'[q].ended /\ peers'[q].input = 0 /\ peers'[q].left
      <4>1. peers'[q] = Parted(peers[q], peers[q].phase, peers[q].ends, TRUE)
        BY <2>1, <3>3
      <4>2. QED
        BY <4>1 DEF Parted
    <3>4. QED
      BY <2>1, <3>1, <3>2, <3>3, Zenon
  <2>6. CASE /\ conns' = [conns EXCEPT ![0] = NoConnection]
             /\ peers'[p] = Parted(peers[p], "served", 1, peers[p].left)
    <3>1. ~ conns'[0].active
      BY <2>2, <2>6 DEF StateInv, NoConnection
    <3>2. peers'[p].phase = "served" /\ peers'[p].ends = 1 /\ peers'[p].ended /\ peers'[p].input = 0
      BY <2>6 DEF Parted
    <3>3. Attached'
      BY <1>1, <2>2, <3>1 DEF Attached
    <3>4. PeersAgree'
      BY <2>5, <3>2 DEF EndsAgree, PeersAgree
    <3>5. EndToldOnce'
      BY <2>5, <3>2 DEF EndsAgree, EndToldOnce
    <3>6. QED
      BY <3>3, <3>4, <3>5 DEF EndsAgree
  <2>7. CASE /\ conns' = [conns EXCEPT ![0] = Fresh(p)]
             /\ peers'[p] = [peers[p] EXCEPT !.phase = "served"]
    <3>1. conns'[0].active /\ conns'[0].peer = p
      BY <2>2, <2>7 DEF StateInv, Fresh
    <3>2. peers'[p].phase = "served" /\ peers'[p].ends = 0
      BY <2>4, <2>7 DEF StateInv
    <3>3. Attached'
      BY <1>1, <2>2, <2>3, <3>1, <3>2 DEF Attached, At
    <3>4. PeersAgree'
      BY <2>5, <3>2 DEF EndsAgree, PeersAgree
    <3>5. Served(p)'
      BY <1>1, <2>2, <3>1 DEF Served
    <3>6. EndToldOnce'
      BY <2>5, <3>2, <3>5 DEF EndsAgree, EndToldOnce
    <3>7. QED
      BY <3>3, <3>4, <3>6 DEF EndsAgree
  <2>8. QED
    BY <1>2, <1>15, <2>6, <2>7, ConnectEffect, Zenon
<1>16. ASSUME NEW p \in Peers, Arrive(p) PROVE EndsAgree'
  <2>1. peers[p].phase = "new" /\ peers' = [peers EXCEPT ![p].phase = "waiting"] /\ UNCHANGED <<conns, frame>>
    BY <1>16 DEF Arrive, InOrder
  <2>2. /\ peers'[p].phase = "waiting" /\ peers'[p].ends = peers[p].ends
        /\ peers'[p].wire = peers[p].wire /\ peers'[p].written = peers[p].written
        /\ \A q \in Peers : q # p => peers'[q] = peers[q]
    BY <2>1 DEF StateInv
  <2>3. Attached'
    BY <1>1, <2>1, <2>2 DEF EndsAgree, Attached, At
  <2>4. PeersAgree'
    BY <2>1, <2>2 DEF EndsAgree, PeersAgree
  <2>5. EndToldOnce'
    BY <1>1, <2>1, <2>2 DEF EndsAgree, EndToldOnce, PeersAgree, Served
  <2>6. QED
    BY <2>3, <2>4, <2>5 DEF EndsAgree
<1>17. ASSUME NEW p \in Peers, PeerSends(p) \/ PeerEnds(p) PROVE EndsAgree'
  <2>1. peers[p].ends = 0 /\ UNCHANGED <<conns, frame>>
    BY <1>17 DEF PeerSends, PeerEnds
  <2>2. \/ peers' = [peers EXCEPT ![p].input = @ + 1] \/ peers' = [peers EXCEPT ![p].ended = TRUE]
    BY <1>17 DEF PeerSends, PeerEnds
  <2>3. \A q \in Peers :
          /\ peers'[q].phase = peers[q].phase /\ peers'[q].ends = peers[q].ends
          /\ peers'[q].left = peers[q].left /\ (peers[q].ended => peers'[q].ended)
          /\ peers'[q].wire = peers[q].wire /\ peers'[q].written = peers[q].written
          /\ q # p => peers'[q] = peers[q]
    BY <2>2 DEF StateInv
  <2>4. QED
    BY <1>1, <2>1, <2>3, EndsKept
<1>18. QED
  BY <1>3, <1>4, <1>5, <1>6, <1>7, <1>8, <1>9, <1>10, <1>11, <1>12, <1>13, <1>14, <1>15, <1>16, <1>17
     DEF Next, Poll, Application

-----------------------------------------------------------------------------
(* The registry. *)

Used(r) == {e \in Entries : r.entries[e] # Null}

RegistryOK(S, r) ==
    /\ r = [entries |-> r.entries, count |-> r.count]
    /\ r.entries \in [Entries -> S \cup {Null}]
    /\ r.count = Cardinality(Used(r))
    /\ \A d, e \in Used(r) : r.entries[d] = r.entries[e] => d = e

LEMMA UsedFinite ==
    ASSUME NEW r
    PROVE  IsFiniteSet(Used(r)) /\ \A U \in SUBSET Used(r) : IsFiniteSet(U)
<1>1. RegistrySize - 1 \in Int
  BY WifiAssumption
<1>2. IsFiniteSet(Entries)
  BY <1>1, FS_Interval DEF Entries
<1>3. Used(r) \in SUBSET Entries
  BY DEF Used
<1>4. IsFiniteSet(Used(r))
  BY <1>2, <1>3, FS_Subset
<1>5. QED
  BY <1>4, FS_Subset

(* add() takes a free entry, if the connection has none yet. *)
LEMMA AddKeeps ==
    ASSUME NEW S \in SUBSET Nat, NEW r, RegistryOK(S, r), NEW i \in S
    PROVE  RegistryOK(S, add(r, i)) /\ \A j \in S : Listed(r, j) => Listed(add(r, i), j)
<1>1. Null \notin S
  BY DEF Null
<1>2. CASE Listed(r, i) \/ full(r)
  BY <1>2 DEF add
<1>3. CASE ~ (Listed(r, i) \/ full(r))
  <2>1. PICK m : m = Min({e \in Entries : r.entries[e] = Null})
    OBVIOUS
  <2>2. m \in Entries /\ r.entries[m] = Null
    <3>1. {e \in Entries : r.entries[e] = Null} \in SUBSET Nat
      BY DEF Entries
    <3>2. {e \in Entries : r.entries[e] = Null} # {}
      BY <1>3 DEF full
    <3>3. m \in {e \in Entries : r.entries[e] = Null}
      BY <2>1, <3>1, <3>2, MinIn, Zenon
    <3>4. QED
      BY <3>3
  <2>3. PICK f, c : f = [r.entries EXCEPT ![m] = i] /\ c = r.count + 1
    OBVIOUS
  <2>4. PICK a : a = add(r, i)
    OBVIOUS
  <2>5. a = [entries |-> f, count |-> c]
    BY <1>3, <2>1, <2>3, <2>4, Zenon DEF add
  <2>6. f \in [Entries -> S \cup {Null}] /\ f[m] = i
        /\ \A e \in Entries : e # m => f[e] = r.entries[e]
    BY <2>2, <2>3 DEF RegistryOK
  <2>7. Used(a) = Used(r) \cup {m} /\ m \notin Used(r)
    BY <1>1, <2>2, <2>5, <2>6 DEF Used
  <2>8. Cardinality(Used(a)) = Cardinality(Used(r)) + 1
    BY <2>7, UsedFinite, FS_AddElement
  <2>9. \A e \in Used(r) : r.entries[e] # i /\ f[e] = r.entries[e]
    BY <1>3, <2>6, <2>7 DEF Listed, Used
  <2>10. \A d, e \in Used(a) : a.entries[d] = a.entries[e] => d = e
    BY <2>5, <2>6, <2>7, <2>9 DEF RegistryOK
  <2>11. RegistryOK(S, a)
    BY <2>3, <2>5, <2>6, <2>8, <2>10 DEF RegistryOK
  <2>12. \A j \in S : Listed(r, j) => Listed(a, j)
    BY <1>1, <2>2, <2>5, <2>6 DEF Listed
  <2>13. QED
    BY <2>4, <2>11, <2>12
<1>4. QED
  BY <1>2, <1>3

LEMMA WithoutKeeps ==
    ASSUME NEW S, NEW r, RegistryOK(S, r), NEW removed \in SUBSET Used(r)
    PROVE  /\ RegistryOK(S, Without(r, removed))
           /\ \A e \in Entries \ removed : Without(r, removed).entries[e] = r.entries[e]
<1>1. PICK f, c : /\ f = [e \in Entries |-> IF e \in removed THEN Null ELSE r.entries[e]]
                  /\ c = r.count - Cardinality(removed)
  OBVIOUS
<1>2. PICK a : a = Without(r, removed)
  OBVIOUS
<1>3. a = [entries |-> f, count |-> c]
  BY <1>1, <1>2, Zenon DEF Without
<1>4. f \in [Entries -> S \cup {Null}] /\ (\A e \in Entries \ removed : f[e] = r.entries[e])
      /\ \A e \in removed : f[e] = Null
  BY <1>1 DEF RegistryOK, Used
<1>5. Used(a) = Used(r) \ removed
  BY <1>3, <1>4 DEF Used
<1>6. /\ IsFiniteSet(Used(r)) /\ IsFiniteSet(removed)
      /\ Used(r) \cap removed = removed
  BY UsedFinite
<1>7. Cardinality(Used(r) \ removed) = Cardinality(Used(r)) - Cardinality(removed)
  BY <1>6, FS_Difference
<1>8. c = Cardinality(Used(a))
  BY <1>1, <1>5, <1>7 DEF RegistryOK
<1>9. \A d, e \in Used(a) : a.entries[d] = a.entries[e] => d = e
  BY <1>3, <1>4, <1>5 DEF RegistryOK, Used
<1>10. RegistryOK(S, a)
  BY <1>3, <1>4, <1>8, <1>9 DEF RegistryOK
<1>11. QED
  BY <1>2, <1>3, <1>4, <1>10

LEMMA RemoveKeeps ==
    ASSUME NEW S \in SUBSET Nat, NEW r, RegistryOK(S, r), NEW i \in S
    PROVE  /\ RegistryOK(S, Remove(r, i))
           /\ \A j \in S : j # i /\ Listed(r, j) => Listed(Remove(r, i), j)
<1>1. PICK removed : removed = IF Listed(r, i) THEN {Min({e \in Entries : r.entries[e] = i})} ELSE {}
  OBVIOUS
<1>2. \A e \in removed : e \in Entries /\ r.entries[e] = i
  <2>1. CASE Listed(r, i)
    <3>1. PICK m : m = Min({e \in Entries : r.entries[e] = i})
      OBVIOUS
    <3>2. {e \in Entries : r.entries[e] = i} \in SUBSET Nat
      BY DEF Entries
    <3>3. {e \in Entries : r.entries[e] = i} # {}
      BY <2>1 DEF Listed
    <3>4. m \in {e \in Entries : r.entries[e] = i}
      BY <3>1, <3>2, <3>3, MinIn, Zenon
    <3>5. removed = {m}
      BY <1>1, <2>1, <3>1, Zenon
    <3>6. QED
      BY <3>4, <3>5
  <2>2. CASE ~ Listed(r, i)
    BY <1>1, <2>2
  <2>3. QED
    BY <2>1, <2>2
<1>3. removed \in SUBSET Used(r)
  BY <1>2 DEF Used, Null
<1>4. Remove(r, i) = Without(r, removed)
  BY <1>1, Zenon DEF Remove
<1>5. \A j \in S : j # i /\ Listed(r, j) => Listed(Without(r, removed), j)
  <2>1. \A e \in Entries \ removed : Without(r, removed).entries[e] = r.entries[e]
    BY <1>3, WithoutKeeps
  <2>2. QED
    BY <1>2, <2>1 DEF Listed
<1>6. QED
  BY <1>3, <1>4, <1>5, WithoutKeeps

(* Every connection of the server is listed, or its end is being told. *)
AllListed ==
    role = "server" => \A i \in Slots : conns[i].active =>
        Listed(registry, i) \/ (At("on_close") /\ frame.slot = i)

RegistryAgrees == EntriesAgree /\ RegistryTracks

LEMMA RegistryParts ==
    /\ RegistryAgrees <=> RegistryOK(Slots, registry) /\ AllListed
    /\ \A S, r : Slots' = S /\ registry' = r /\ RegistryOK(S, r) /\ AllListed' => RegistryAgrees'
<1>1. RegistryAgrees <=> RegistryOK(Slots, registry) /\ AllListed
  BY DEF RegistryAgrees, EntriesAgree, RegistryTracks, RegistryOK, AllListed, Used
<1>2. ASSUME NEW S, NEW r, Slots' = S, registry' = r, RegistryOK(S, r), AllListed'
      PROVE  RegistryAgrees'
  BY <1>2 DEF RegistryAgrees, EntriesAgree, RegistryTracks, RegistryOK, AllListed, Used
<1>3. QED
  BY <1>1, <1>2

(* A step that attaches no connection and leaves the registry alone. *)
LEMMA RegistryKept ==
    ASSUME RegistryAgrees, role' = role, registry' = registry,
           \A i \in Slots : conns'[i].active => conns[i].active,
           frame.at = "on_close" => \/ ~ conns'[frame.slot].active
                                    \/ frame'.at = "on_close" /\ frame'.slot = frame.slot
    PROVE  RegistryAgrees'
<1>1. Slots' = Slots
  BY DEF Slots
<1>2. PICK S, r : S = Slots /\ r = registry
  OBVIOUS
<1>3. RegistryOK(S, r)
  BY <1>2, RegistryParts
<1>4. AllListed'
  <2>1. AllListed
    BY RegistryParts
  <2>2. \A i \in Slots : Listed(registry, i) => Listed(registry, i)'
    BY DEF Listed
  <2>3. QED
    BY <1>1, <2>1, <2>2 DEF AllListed, At
<1>5. QED
  BY <1>1, <1>2, <1>3, <1>4, RegistryParts

LEMMA RegistryStep ==
    ASSUME StateInv, Attached, RegistryAgrees, [Next]_vars
    PROVE  RegistryAgrees'
<1>1. Slots' = Slots /\ role' = role
  <2>1. role' = role
    BY GoesOn
  <2>2. QED
    BY <2>1 DEF Slots
<1>2. PICK S, r : S = Slots /\ r = registry
  OBVIOUS
<1>3. S \in SUBSET Nat /\ RegistryOK(S, r) /\ AllListed
  BY <1>2, Sizes, RegistryParts
<1>4. ASSUME NEW p \in Peers, PollAccepts(p) PROVE RegistryAgrees'
  <2>1. PICK i \in Slots :
          /\ At("idle") /\ registry' = add(registry, i)
          /\ conns' = [conns EXCEPT ![i] = IF Listed(add(registry, i), i) THEN Fresh(p)
                                           ELSE NoConnection]
    BY <1>4, PollAcceptsEffect, Zenon
  <2>2. PICK a : a = add(r, i)
    OBVIOUS
  <2>3. registry' = a
    BY <1>2, <2>1, <2>2, Zenon
  <2>4. RegistryOK(S, a) /\ \A j \in S : Listed(r, j) => Listed(a, j)
    BY <1>2, <1>3, <2>2, AddKeeps
  <2>5. AllListed'
    <3>1. frame.at = "idle"
      BY <2>1 DEF At
    <3>2. ASSUME NEW j \in Slots, conns'[j].active, role = "server" PROVE Listed(a, j)
      <4>1. CASE j = i
        <5>1. CASE Listed(a, i)
          BY <4>1, <5>1
        <5>2. CASE ~ Listed(a, i)
          <6>1. conns' = [conns EXCEPT ![i] = NoConnection]
            BY <1>2, <2>1, <2>2, <5>2, Zenon
          <6>2. QED
            BY <3>2, <4>1, <6>1 DEF StateInv, NoConnection
        <5>3. QED
          BY <5>1, <5>2
      <4>2. CASE j # i
        <5>1. conns[j].active
          BY <2>1, <3>2, <4>2 DEF StateInv
        <5>2. Listed(r, j)
          BY <1>2, <1>3, <3>1, <3>2, <5>1 DEF AllListed, At
        <5>3. QED
          BY <1>2, <2>4, <5>2
      <4>3. QED
        BY <4>1, <4>2
    <3>3. QED
      BY <1>1, <2>3, <3>2 DEF AllListed, Listed
  <2>6. QED
    BY <1>1, <1>2, <2>3, <2>4, <2>5, RegistryParts
<1>5. CASE PollEnd
  <2>1. CASE closed_by_peer(frame.slot)
    <3>0. PICK i \in Slots : i = frame.slot
      BY DEF StateInv
    <3>1. PICK a : a = Remove(r, i)
      OBVIOUS
    <3>2. registry' = a /\ frame' = [at |-> "on_close", slot |-> i] /\ UNCHANGED conns
      BY <1>2, <1>5, <2>1, <3>0, <3>1, FrameMoves DEF PollEnd
    <3>3. RegistryOK(S, a) /\ \A j \in S : j # i /\ Listed(r, j) => Listed(a, j)
      BY <1>2, <1>3, <3>1, RemoveKeeps
    <3>4. frame.at = "end"
      BY <1>5 DEF PollEnd, At
    <3>5. AllListed'
      <4>1. \A j \in Slots : conns[j].active /\ role = "server" => Listed(r, j)
        BY <1>2, <1>3, <3>4 DEF AllListed, At
      <4>2. frame'.at = "on_close" /\ frame'.slot = i
        BY <3>2
      <4>3. QED
        BY <1>1, <1>2, <3>2, <3>3, <4>1, <4>2 DEF AllListed, At, Listed
    <3>6. QED
      BY <1>1, <1>2, <3>2, <3>3, <3>5, RegistryParts
  <2>2. CASE ~ closed_by_peer(frame.slot)
    BY <1>1, <1>5, <2>2, RegistryKept DEF PollEnd, At
  <2>3. QED
    BY <2>1, <2>2
<1>6. CASE CallbackReturns
  <2>1. CASE At("on_close")
    <3>1. conns' = [conns EXCEPT ![frame.slot] = NoConnection] /\ UNCHANGED registry
      BY <1>6, <2>1, ClosedEffect
    <3>2. /\ \A i \in Slots : conns'[i].active => conns[i].active
          /\ ~ conns'[frame.slot].active
      BY <3>1 DEF StateInv, NoConnection
    <3>3. QED
      BY <1>1, <3>1, <3>2, RegistryKept
  <2>2. CASE ~ At("on_close")
    BY <1>1, <1>6, <2>2, RegistryKept DEF CallbackReturns, At
  <2>3. QED
    BY <2>1, <2>2
<1>7. ASSUME NEW n \in 0 .. Capacity, Flush(n) PROVE RegistryAgrees'
  <2>1. frame.at = "flush" /\ UNCHANGED registry
    BY <1>7 DEF Flush, At
  <2>2. \A i \in Slots : conns'[i].active => conns[i].active
    <3>1. ASSUME NEW i, NEW t, conns' = [conns EXCEPT ![i].tx = t]
          PROVE  \A s \in Slots : conns'[s].active => conns[s].active
      BY <3>1 DEF StateInv
    <3>2. \/ UNCHANGED conns
          \/ conns' = [conns EXCEPT ![frame.slot].tx = popped(@, n)]
      BY <1>7 DEF Flush
    <3>3. QED
      BY <3>1, <3>2
  <2>3. QED
    BY <1>1, <2>1, <2>2, RegistryKept
<1>8. ASSUME NEW i \in Slots, NEW n \in 1 .. Capacity, write(i, n) PROVE RegistryAgrees'
  <2>1. PICK t : conns' = [conns EXCEPT ![i].tx = t]
    <3>1. \E k, src : conns' = [conns EXCEPT ![i].tx = Written(i, k, src)]
      BY <1>8, Zenon DEF write, Written
    <3>2. QED
      BY <3>1
  <2>2. \A s \in Slots : conns'[s].active = conns[s].active
    BY <2>1 DEF StateInv
  <2>3. UNCHANGED <<registry, frame>> /\ conns[i].active
    BY <1>8 DEF write, valid
  <2>4. frame.at = "on_close" => frame'.at = "on_close" /\ frame'.slot = frame.slot
    BY <2>3
  <2>5. QED
    BY <1>1, <2>2, <2>3, <2>4, RegistryKept
<1>9. ASSUME NEW i \in Slots, NEW n \in 1 .. MaxInput, read(i, n) \/ read_line(i, n)
      PROVE  RegistryAgrees'
  <2>1. ASSUME NEW l, conns' = [conns EXCEPT ![i].line = l]
        PROVE  \A s \in Slots : conns'[s].active => conns[s].active
    BY <2>1 DEF StateInv
  <2>2. \/ UNCHANGED conns \/ conns' = [conns EXCEPT ![i].line = {}]
        \/ conns' = [conns EXCEPT ![i].line = @ \cup {conns[i].peer}]
    BY <1>9 DEF read, read_line
  <2>3. UNCHANGED <<registry, frame>>
    BY <1>9 DEF read, read_line, Take
  <2>4. QED
    BY <1>1, <2>1, <2>2, <2>3, RegistryKept
<1>10. ASSUME NEW i \in Slots, NEW remove \in BOOLEAN, CloseConnection(i, remove)
       PROVE  RegistryAgrees'
  <2>1. /\ conns' = [conns EXCEPT ![i] = NoConnection] /\ UNCHANGED frame
        /\ registry' = IF remove THEN Remove(registry, i) ELSE registry
    BY <1>10, CloseConnectionEffect
  <2>2. \A j \in Slots : conns'[j].active => conns[j].active /\ j # i
    BY <2>1 DEF StateInv, NoConnection
  <2>3. CASE ~ remove
    BY <1>1, <2>1, <2>2, <2>3, RegistryKept
  <2>4. CASE remove
    <3>1. PICK a : a = Remove(r, i)
      OBVIOUS
    <3>2. registry' = a
      BY <1>2, <2>1, <2>4, <3>1, Zenon
    <3>3. RegistryOK(S, a) /\ \A j \in S : j # i /\ Listed(r, j) => Listed(a, j)
      BY <1>2, <1>3, <3>1, RemoveKeeps
    <3>4. AllListed'
      BY <1>1, <1>2, <1>3, <2>1, <2>2, <3>2, <3>3 DEF AllListed, At, Listed
    <3>5. QED
      BY <1>1, <1>2, <3>2, <3>3, <3>4, RegistryParts
  <2>5. QED
    BY <2>3, <2>4
<1>11. CASE prune_invalid
  <2>1. PICK removed : removed = {e \in Entries : r.entries[e] # Null /\ ~ valid(r.entries[e])}
    OBVIOUS
  <2>2. removed \in SUBSET Used(r)
    BY <2>1 DEF Used
  <2>3. PICK a : a = Without(r, removed)
    OBVIOUS
  <2>4. registry' = a /\ UNCHANGED <<conns, frame>>
    BY <1>2, <1>11, <2>1, <2>3, Zenon DEF prune_invalid, Pruned
  <2>5. RegistryOK(S, a) /\ \A e \in Entries \ removed : a.entries[e] = r.entries[e]
    BY <1>3, <2>2, <2>3, WithoutKeeps
  <2>6. \A j \in Slots : conns[j].active /\ Listed(r, j) => Listed(a, j)
    BY <2>1, <2>5 DEF Listed, valid
  <2>7. AllListed'
    BY <1>1, <1>2, <1>3, <2>4, <2>6 DEF AllListed, At, Listed
  <2>8. QED
    BY <1>1, <1>2, <2>4, <2>5, <2>7, RegistryParts
<1>12. CASE Close
  <2>1. PICK f, a : f = [e \in Entries |-> Null] /\ a = [entries |-> f, count |-> 0]
    OBVIOUS
  <2>2. registry' = a /\ \A i \in Slots : ~ conns'[i].active
    BY <1>12, <2>1, CloseEffect DEF NoConnection
  <2>3. Used(a) = {}
    BY <2>1 DEF Used
  <2>4. RegistryOK(S, a)
    BY <2>1, <2>3, FS_EmptySet DEF RegistryOK
  <2>5. AllListed'
    BY <1>1, <2>2 DEF AllListed
  <2>6. QED
    BY <1>1, <1>2, <2>2, <2>4, <2>5, RegistryParts
<1>13. ASSUME NEW p \in Peers, connect(p) PROVE RegistryAgrees'
  <2>1. role = "client" /\ UNCHANGED registry
    BY <1>13 DEF connect
  <2>2. AllListed'
    BY <1>1, <2>1 DEF AllListed
  <2>3. QED
    BY <1>1, <1>2, <1>3, <2>1, <2>2, RegistryParts
<1>14. CASE PollConnections \/ PollInput \/ listen \/ UNCHANGED vars
            \/ \E p \in Peers : PollRefuses(p) \/ Arrive(p) \/ PeerSends(p) \/ PeerEnds(p)
  <2>1. UNCHANGED <<conns, registry>>
    BY <1>14 DEF PollConnections, PollInput, listen, vars, PollRefuses, Arrive, PeerSends, PeerEnds
  <2>2. UNCHANGED frame \/ frame.at # "on_close"
    BY <1>14 DEF PollConnections, PollInput, listen, vars, PollRefuses, Arrive, PeerSends, PeerEnds, At
  <2>3. QED
    BY <1>1, <2>1, <2>2, RegistryKept
<1>15. QED
  BY <1>4, <1>5, <1>6, <1>7, <1>8, <1>9, <1>10, <1>11, <1>12, <1>13, <1>14
     DEF Next, Poll, Application

-----------------------------------------------------------------------------
(* The transmit ring, of which the lemmas of ReaderProofs hold. *)

Rings == INSTANCE ReaderProofs WITH
    Setups <- <<>>, FrameSize <- 1, HeaderSize <- 1, MaxPayload <- 0,
    payload_size_from_header <- <<>>, Literals <- {}, MaxChunk <- 0,
    setup <- 0, ring <- 0, reader <- 0, consumed <- <<>>, emitted <- <<>>, written <- <<>>

LEMMA SameRings ==
    ASSUME NEW r
    PROVE  /\ Rings!RingAssumption /\ Rings!SetupsAssumption
           /\ Rings!FramesAssumption /\ Rings!LiteralsAssumption
           /\ Rings!Cells = Cells /\ Rings!Content(r) = Content(r)
           /\ Rings!RingOK(r) <=> RingOK(r)
           /\ Rings!cleared(r) = cleared(r)
           /\ \A n : Rings!get(r, n) = get(r, n)
           /\ \A src : Rings!put(r, src) = put(r, src)
BY RingAssumption DEF Rings!RingAssumption, Rings!SetupsAssumption, Rings!FramesAssumption,
    Rings!LiteralsAssumption, Cells, Rings!Cells, Content, Rings!Content, RingOK,
    Rings!RingOK, cleared, Rings!cleared, get, Rings!get, put, Rings!put

(* A ring of items of S, and what it holds. *)
Holds(S, r, content) == RingOK(r) /\ r.cells \in [Cells -> S] /\ Content(r) = content

LEMMA EmptyHolds ==
    ASSUME NEW S, Blank \in S
    PROVE  Holds(S, EmptyRing, <<>>)
<1>1. PICK f, e : f = [i \in Cells |-> Blank] /\ e = EmptyRing
  OBVIOUS
<1>2. e = [cells |-> f, head |-> 0, count |-> 0, tail |-> 0]
  BY <1>1, Zenon DEF EmptyRing
<1>3. f \in [Cells -> S] /\ f = [i \in Cells |-> f[i]] /\ 0 \in Cells /\ 0 \in 0 .. Capacity
  BY <1>1, RingAssumption DEF Cells
<1>4. (0 + 0) % Capacity = 0
  BY RingAssumption
<1>5. RingOK(e)
  BY <1>2, <1>3, <1>4 DEF RingOK
<1>6. Content(e) = <<>>
  <2>1. PICK c : c = Content(e)
    OBVIOUS
  <2>2. c = [i \in 1 .. 0 |-> e.cells[(e.head + i - 1) % Capacity]]
    BY <1>2, <2>1 DEF Content
  <2>3. c \in Seq(S) /\ Len(c) = 0
    BY <2>2
  <2>4. QED
    BY <2>1, <2>3, EmptySeq
<1>7. QED
  BY <1>1, <1>2, <1>3, <1>5, <1>6 DEF Holds

LEMMA HoldsParts ==
    ASSUME NEW S, NEW r, NEW q, Holds(S, r, q)
    PROVE  \E cells, h, c : Rings!Ring(S, cells, h, c) /\ r = Rings!RingAt(cells, h, c)
<1>1. Rings!RingOK(r) /\ r.cells \in [Rings!Cells -> S]
  BY SameRings DEF Holds
<1>2. QED
  BY <1>1, SameRings, Rings!RingParts DEF Rings!RingParts

(* write(): the part that fits is stored behind what is held. *)
LEMMA PutHolds ==
    ASSUME NEW S, NEW r, NEW q, Holds(S, r, q), NEW src, src \in Seq(S)
    PROVE  /\ Holds(S, put(r, Fitting(r, src)), q \o Fitting(r, src))
           /\ q \in Seq(S)
           /\ \E m \in 0 .. Len(src) : Fitting(r, src) = SubSeq(src, 1, m)
<1>1. \E cells, h, c : Rings!Ring(S, cells, h, c) /\ r = Rings!RingAt(cells, h, c)
  BY HoldsParts
<1>2. PICK cells, h, c : Rings!Ring(S, cells, h, c) /\ r = Rings!RingAt(cells, h, c)
  BY <1>1
<1>3. Capacity \in Nat \ {0} /\ c \in 0 .. Capacity /\ r.count = c
  BY <1>2, RingAssumption DEF Rings!Ring, Rings!RingAt
<1>4. PICK m : m = IF Len(src) < free(r) THEN Len(src) ELSE free(r)
  OBVIOUS
<1>5. m \in 0 .. Len(src) /\ m <= Capacity - c
  BY <1>3, <1>4 DEF free
<1>6. PICK t : t = SubSeq(src, 1, m)
  OBVIOUS
<1>7. t \in Seq(S) /\ Len(t) = m
  BY <1>5, <1>6
<1>8. Fitting(r, src) = t
  BY <1>4, <1>6, Zenon DEF Fitting
<1>9. Rings!PutIs(S, r, t)
  <2>1. Len(t) <= Capacity - c
    BY <1>5, <1>7
  <2>2. QED
    BY <1>2, <1>7, <2>1, SameRings, Rings!PutAppends DEF Rings!PutAppends
<1>10. q \in Seq(S)
  BY <1>2, SameRings, Rings!ContentAt DEF Rings!ContentAt, Holds
<1>11. Holds(S, put(r, t), q \o t)
  BY <1>9, SameRings DEF Rings!PutIs, Holds
<1>12. QED
  BY <1>5, <1>6, <1>8, <1>10, <1>11

(* flush_output(): the bytes sent and those that are left make up what was  *)
(* held.                                                                    *)
LEMMA ChunksAre ==
    ASSUME NEW S, NEW r, NEW q, Holds(S, r, q), NEW n, n \in 0 .. r.count
    PROVE  /\ q \in Seq(S) /\ Len(q) = r.count
           /\ Chunks(r, n) \in Seq(S) /\ Len(Chunks(r, n)) = n
           /\ \A j \in 1 .. n : Chunks(r, n)[j] = q[j]
<1>1. \E cells, h, c : Rings!Ring(S, cells, h, c) /\ r = Rings!RingAt(cells, h, c)
  BY HoldsParts
<1>2. PICK cells, h, c : Rings!Ring(S, cells, h, c) /\ r = Rings!RingAt(cells, h, c)
  BY <1>1
<1>3. /\ Capacity \in Nat \ {0} /\ h \in 0 .. Capacity - 1 /\ c \in 0 .. Capacity
      /\ r.cells = cells /\ r.head = h /\ r.count = c
  BY <1>2, RingAssumption DEF Rings!Ring, Rings!RingAt
<1>4. /\ q \in Seq(S) /\ Len(q) = c
      /\ \A i \in 1 .. c : q[i] = cells[(h + i - 1) % Capacity]
  BY <1>2, SameRings, Rings!ContentAt DEF Rings!ContentAt, Holds
<1>5. PICK k : k = IF c < Capacity - h THEN c ELSE Capacity - h
  OBVIOUS
<1>6. contiguous(r) = k
  BY <1>3, <1>5 DEF contiguous
<1>7. n \in 0 .. c
  BY <1>3
<1>8. PICK s : s = Chunks(r, n)
  OBVIOUS
<1>9. s = [j \in 1 .. n |-> cells[IF j <= k THEN h + j - 1 ELSE j - k - 1]]
  BY <1>3, <1>6, <1>8, Zenon DEF Chunks
<1>10. ASSUME NEW j \in 1 .. n PROVE s[j] = q[j]
  <2>1. PICK x : x = IF j <= k THEN h + j - 1 ELSE j - k - 1
    OBVIOUS
  <2>2. j \in 1 .. c
    BY <1>3, <1>7
  <2>3. (h + j - 1) % Capacity = x
    <3>1. CASE j <= k
      <4>1. h + j - 1 \in 0 .. Capacity - 1 /\ x = h + j - 1
        BY <1>3, <1>5, <2>1, <2>2, <3>1
      <4>2. QED
        BY <1>3, <4>1
    <3>2. CASE ~ j <= k
      <4>1. k = Capacity - h
        BY <1>3, <1>5, <2>2, <3>2
      <4>2. PICK y : y = h + j - 1
        OBVIOUS
      <4>3. x \in 0 .. Capacity - 1 /\ y = Capacity + x
        BY <1>3, <2>1, <2>2, <3>2, <4>1, <4>2
      <4>4. (Capacity + x) % Capacity = x
        BY <1>3, <4>3
      <4>5. QED
        BY <4>2, <4>3, <4>4
    <3>3. QED
      BY <3>1, <3>2
  <2>4. s[j] = cells[x]
    BY <1>9, <2>1
  <2>5. q[j] = cells[(h + j - 1) % Capacity]
    BY <1>4, <2>2
  <2>6. QED
    BY <2>3, <2>4, <2>5
<1>11. s = [j \in 1 .. n |-> q[j]]
  BY <1>9, <1>10
<1>12. \A j \in 1 .. n : q[j] \in S
  BY <1>4, <1>7
<1>13. n \in Nat
  BY <1>3, <1>7
<1>14. s \in Seq(S) /\ Len(s) = n
  BY <1>11, <1>12, <1>13
<1>15. QED
  BY <1>3, <1>4, <1>8, <1>10, <1>14

LEMMA PoppedHolds ==
    ASSUME NEW S, NEW r, NEW q, Holds(S, r, q), NEW n, n \in 0 .. r.count, n # r.count
    PROVE  /\ Content(popped(r, n)) \in Seq(S) /\ Len(Content(popped(r, n))) = r.count - n
           /\ \A i \in 1 .. r.count - n : Content(popped(r, n))[i] = q[n + i]
           /\ RingOK(popped(r, n)) /\ popped(r, n).cells \in [Cells -> S]
<1>1. \E cells, h, c : Rings!Ring(S, cells, h, c) /\ r = Rings!RingAt(cells, h, c)
  BY HoldsParts
<1>2. PICK cells, h, c : Rings!Ring(S, cells, h, c) /\ r = Rings!RingAt(cells, h, c)
  BY <1>1
<1>3. /\ Capacity \in Nat \ {0} /\ h \in 0 .. Capacity - 1 /\ c \in 0 .. Capacity
      /\ cells \in [0 .. Capacity - 1 -> S]
      /\ r.count = c /\ r = [cells |-> cells, head |-> h, count |-> c, tail |-> (h + c) % Capacity]
  BY <1>2, RingAssumption DEF Rings!Ring, Rings!RingAt, Rings!Cells
<1>4. /\ q \in Seq(S) /\ Len(q) = c
      /\ \A i \in 1 .. c : q[i] = cells[(h + i - 1) % Capacity]
  BY <1>2, SameRings, Rings!ContentAt DEF Rings!ContentAt, Holds
<1>5. n \in 0 .. c - 1
  BY <1>3
<1>6. PICK g \in 0 .. Capacity - 1 : g = (h + n) % Capacity
  BY <1>3, <1>5
<1>7. ASSUME NEW m \in 0 .. Capacity PROVE (g + m) % Capacity = (h + n + m) % Capacity
  <2>1. n \in 0 .. Capacity
    BY <1>3, <1>5
  <2>2. (((h + n) % Capacity) + m) % Capacity = (h + n + m) % Capacity
    BY <1>3, <2>1, SameRings, Rings!Onwards, Zenon DEF Rings!Onwards
  <2>3. QED
    BY <1>6, <2>2, Zenon
<1>8. PICK a : a = popped(r, n)
  OBVIOUS
<1>9. a = Rings!RingAt(cells, g, c - n)
  <2>1. PICK t : t = (h + c) % Capacity
    OBVIOUS
  <2>2. (g + (c - n)) % Capacity = t
    <3>1. c - n \in 0 .. Capacity /\ h + n + (c - n) = h + c
      BY <1>3, <1>5
    <3>2. QED
      BY <1>7, <2>1, <3>1
  <2>3. r = [cells |-> cells, head |-> h, count |-> c, tail |-> t]
    BY <1>3, <2>1
  <2>4. PICK d : d = [r EXCEPT !.head = g]
    OBVIOUS
  <2>5. d = [cells |-> cells, head |-> g, count |-> c, tail |-> t]
    BY <2>3, <2>4
  <2>6. PICK e : e = [d EXCEPT !.count = c - n]
    OBVIOUS
  <2>7. e = [cells |-> cells, head |-> g, count |-> c - n, tail |-> t]
    BY <2>5, <2>6
  <2>8. r.head = h /\ r.count = c
    BY <2>3
  <2>9. get(r, n) = [r EXCEPT !.head = (r.head + n) % Capacity, !.count = r.count - n]
    BY Zenon DEF get
  <2>10. get(r, n) = [r EXCEPT !.head = g, !.count = c - n]
    BY <1>6, <2>8, <2>9, Zenon
  <2>11. get(r, n) = e
    BY <2>4, <2>6, <2>10, Zenon
  <2>12. a = e
    BY <1>8, <2>11, Zenon DEF popped
  <2>13. QED
    BY <2>2, <2>7, <2>12 DEF Rings!RingAt
<1>10. Rings!Ring(S, cells, g, c - n)
  <2>1. c - n \in 0 .. Capacity
    BY <1>3, <1>5
  <2>2. QED
    BY <1>3, <1>6, <2>1 DEF Rings!Ring, Rings!Cells
<1>11. /\ Content(a) \in Seq(S) /\ Len(Content(a)) = c - n
       /\ \A i \in 1 .. c - n : Content(a)[i] = cells[(g + i - 1) % Capacity]
  BY <1>9, <1>10, SameRings, Rings!ContentAt DEF Rings!ContentAt
<1>12. RingOK(a) /\ a.cells \in [Cells -> S]
  BY <1>9, <1>10, SameRings, Rings!RingWhole DEF Rings!RingWhole
<1>13. ASSUME NEW i \in 1 .. c - n PROVE Content(a)[i] = q[n + i]
  <2>1. PICK m \in 0 .. Capacity : m = i - 1
    BY <1>3, <1>5
  <2>2. (g + m) % Capacity = (h + n + m) % Capacity
    BY <1>7
  <2>3. g + i - 1 = g + m /\ h + (n + i) - 1 = h + n + m
    BY <1>3, <1>5, <2>1
  <2>4. n + i \in 1 .. c
    BY <1>3, <1>5
  <2>5. q[n + i] = cells[(h + (n + i) - 1) % Capacity]
    BY <1>4, <2>4
  <2>6. Content(a)[i] = cells[(g + i - 1) % Capacity]
    BY <1>11
  <2>7. QED
    BY <2>2, <2>3, <2>5, <2>6, Zenon
<1>14. QED
  BY <1>3, <1>8, <1>11, <1>12, <1>13

LEMMA FlushHolds ==
    ASSUME NEW S, NEW r, NEW q, Holds(S, r, q), NEW n, n \in 0 .. r.count
    PROVE  /\ Holds(S, popped(r, n), Content(popped(r, n))) /\ Content(popped(r, n)) \in Seq(S)
           /\ Chunks(r, n) \in Seq(S)
           /\ q = Chunks(r, n) \o Content(popped(r, n))
<1>1. PICK s : s = Chunks(r, n)
  OBVIOUS
<1>2. /\ q \in Seq(S) /\ Len(q) = r.count /\ s \in Seq(S) /\ Len(s) = n
      /\ \A j \in 1 .. n : s[j] = q[j]
  BY <1>1, ChunksAre
<1>3. CASE n = r.count
  <2>1. popped(r, n) = cleared(r)
    BY <1>3 DEF popped
  <2>2. Rings!RingOK(r) /\ r.cells \in [Rings!Cells -> S]
    BY SameRings DEF Holds
  <2>3. RingOK(cleared(r)) /\ cleared(r).cells \in [Cells -> S] /\ Content(cleared(r)) = <<>>
    BY <2>2, SameRings, Rings!ClearedEmpty DEF Rings!ClearedEmpty
  <2>4. q = s
    BY <1>2, <1>3
  <2>5. s = s \o <<>> /\ <<>> \in Seq(S)
    BY <1>2
  <2>6. QED
    BY <1>1, <1>2, <2>1, <2>3, <2>4, <2>5 DEF Holds
<1>4. CASE n # r.count
  <2>1. PICK t : t = Content(popped(r, n))
    OBVIOUS
  <2>2. /\ t \in Seq(S) /\ Len(t) = r.count - n
        /\ \A i \in 1 .. r.count - n : t[i] = q[n + i]
        /\ RingOK(popped(r, n)) /\ popped(r, n).cells \in [Cells -> S]
    <3>1. /\ Content(popped(r, n)) \in Seq(S) /\ Len(Content(popped(r, n))) = r.count - n
          /\ \A i \in 1 .. r.count - n : Content(popped(r, n))[i] = q[n + i]
          /\ RingOK(popped(r, n)) /\ popped(r, n).cells \in [Cells -> S]
      BY <1>4, PoppedHolds
    <3>2. QED
      BY <2>1, <3>1
  <2>3. PICK u : u = s \o t
    OBVIOUS
  <2>4. r.count \in Nat
    BY <1>2
  <2>5. /\ u \in Seq(S) /\ Len(u) = Len(q)
        /\ \A i \in 1 .. Len(q) : u[i] = IF i <= n THEN s[i] ELSE t[i - n]
    <3>1. /\ u \in Seq(S) /\ Len(u) = Len(s) + Len(t)
          /\ \A i \in 1 .. Len(s) + Len(t) : u[i] = IF i <= Len(s) THEN s[i] ELSE t[i - Len(s)]
      BY <1>2, <2>2, <2>3, ConcatProperties
    <3>2. Len(s) + Len(t) = Len(q)
      BY <1>2, <2>2, <2>4
    <3>3. QED
      BY <1>2, <3>1, <3>2
  <2>6. \A i \in 1 .. Len(q) : u[i] = q[i]
    <3> TAKE i \in 1 .. Len(q)
    <3>1. CASE i <= n
      BY <1>2, <2>4, <2>5, <3>1
    <3>2. CASE ~ i <= n
      <4>1. i - n \in 1 .. r.count - n /\ n + (i - n) = i
        BY <1>2, <2>4, <3>2
      <4>2. QED
        BY <2>2, <2>5, <3>2, <4>1
    <3>3. QED
      BY <3>1, <3>2
  <2>7. u = q
    BY <1>2, <2>5, <2>6, SeqEqual
  <2>8. QED
    BY <1>1, <1>2, <2>1, <2>2, <2>3, <2>7 DEF Holds
<1>5. QED
  BY <1>3, <1>4

-----------------------------------------------------------------------------
(* The streams. *)

Bytes == Nat \cup {Blank}
Numbers(n) == [j \in 1 .. n |-> j]

(* The next m bytes after the first n of them. *)
Onward(n, m) == [j \in 1 .. m |-> n + j]

LEMMA NumbersGoOn ==
    ASSUME NEW n \in Nat, NEW m \in Nat, NEW k \in 0 .. m
    PROVE  /\ Onward(n, m) \in Seq(Bytes) /\ Len(Onward(n, m)) = m
           /\ Len(SubSeq(Onward(n, m), 1, k)) = k
           /\ Numbers(n) \o SubSeq(Onward(n, m), 1, k) = Numbers(n + k)
<1>1. PICK s, t : s = Onward(n, m) /\ t = SubSeq(s, 1, k)
  OBVIOUS
<1>2. s \in Seq(Nat) /\ Len(s) = m /\ \A j \in 1 .. m : s[j] = n + j
  BY <1>1 DEF Onward
<1>3. t \in Seq(Nat) /\ Len(t) = k /\ \A j \in 1 .. k : t[j] = n + j
  BY <1>1, <1>2
<1>4. PICK w : w = Numbers(n)
  OBVIOUS
<1>5. w \in Seq(Nat) /\ Len(w) = n /\ \A j \in 1 .. n : w[j] = j
  BY <1>4 DEF Numbers
<1>6. PICK u : u = w \o t
  OBVIOUS
<1>7. /\ u \in Seq(Nat) /\ Len(u) = Len(w) + Len(t)
      /\ \A j \in 1 .. Len(w) + Len(t) : u[j] = IF j <= Len(w) THEN w[j] ELSE t[j - Len(w)]
  BY <1>3, <1>5, <1>6, ConcatProperties
<1>8. PICK v : v = Numbers(n + k)
  OBVIOUS
<1>9. n + k \in Nat /\ k \in Nat
  OBVIOUS
<1>10. v \in Seq(Nat) /\ Len(v) = n + k /\ \A j \in 1 .. n + k : v[j] = j
  BY <1>8, <1>9 DEF Numbers
<1>11. ASSUME NEW j \in 1 .. n + k PROVE u[j] = j
  <2>1. CASE j <= n
    BY <1>3, <1>5, <1>7, <2>1
  <2>2. CASE ~ j <= n
    <3>1. j - n \in 1 .. k /\ n + (j - n) = j
      BY <2>2
    <3>2. u[j] = t[j - n]
      BY <1>3, <1>5, <1>7, <2>2
    <3>3. QED
      BY <1>3, <3>1, <3>2
  <2>3. QED
    BY <2>1, <2>2
<1>12. u = v
  BY <1>3, <1>5, <1>7, <1>10, <1>11, SeqEqual
<1>13. s \in Seq(Bytes)
  BY <1>2 DEF Bytes
<1>14. QED
  BY <1>1, <1>2, <1>3, <1>4, <1>6, <1>8, <1>12, <1>13

(* What a peer got and what waits for it, of what was written for it.       *)
PeerStream(r) ==
    /\ r.wire \in Seq(Bytes) /\ r.written \in Nat
    /\ \A j \in 1 .. Len(r.wire) : r.wire[j] = j

Carries(c, r) ==
    /\ Holds(Bytes, c.tx, Content(c.tx))
    /\ r.wire \o Content(c.tx) = Numbers(r.written)
    /\ c.line \subseteq {c.peer}

StreamsAgree == RingsAgree /\ StreamsKept

LEMMA StreamsParts ==
    /\ StreamsAgree =>
         /\ \A p \in Peers : PeerStream(peers[p])
         /\ \A i \in Slots : conns[i].active => Carries(conns[i], peers[conns[i].peer])
    /\ (\A p \in Peers : PeerStream(peers'[p]))
       /\ (\A i \in Slots' : conns'[i].active => Carries(conns'[i], peers'[conns'[i].peer]))
         => StreamsAgree'
<1>1. ASSUME StreamsAgree
      PROVE  /\ \A p \in Peers : PeerStream(peers[p])
             /\ \A i \in Slots : conns[i].active => Carries(conns[i], peers[conns[i].peer])
  BY <1>1 DEF StreamsAgree, RingsAgree, StreamsKept, PeerStream, Carries, Holds, Bytes, Numbers
<1>2. ASSUME \A p \in Peers : PeerStream(peers'[p]),
             \A i \in Slots' : conns'[i].active => Carries(conns'[i], peers'[conns'[i].peer])
      PROVE  StreamsAgree'
  BY <1>2 DEF StreamsAgree, RingsAgree, StreamsKept, PeerStream, Carries, Holds, Bytes, Numbers
<1>3. QED
  BY <1>1, <1>2

(* A peer that carries on has got the beginning of what was written for it. *)
LEMMA CarriesStream ==
    ASSUME NEW w \in Seq(Bytes), NEW q \in Seq(Bytes), NEW n \in Nat, w \o q = Numbers(n)
    PROVE  \A j \in 1 .. Len(w) : w[j] = j
<1>1. PICK u : u = w \o q
  OBVIOUS
<1>2. /\ Len(u) = Len(w) + Len(q) /\ Len(w) \in Nat /\ Len(q) \in Nat
      /\ \A j \in 1 .. Len(w) + Len(q) : u[j] = IF j <= Len(w) THEN w[j] ELSE q[j - Len(w)]
  BY <1>1, ConcatProperties
<1>3. u = [j \in 1 .. n |-> j] /\ Len(u) = n
  BY <1>1 DEF Numbers
<1>4. \A j \in 1 .. Len(w) : j \in 1 .. n /\ u[j] = w[j]
  BY <1>2, <1>3
<1>5. QED
  BY <1>3, <1>4

(* A step that attaches no connection, and neither flushes nor writes.      *)
LEMMA StreamsStay ==
    ASSUME StreamsAgree, role' = role, \A p \in Peers : PeerStream(peers'[p]),
           \A i \in Slots : conns'[i].active =>
              /\ conns[i].active /\ conns'[i].peer = conns[i].peer /\ conns'[i].tx = conns[i].tx
              /\ conns'[i].line \subseteq {conns[i].peer}
              /\ peers'[conns[i].peer].wire = peers[conns[i].peer].wire
              /\ peers'[conns[i].peer].written = peers[conns[i].peer].written
    PROVE  StreamsAgree'
<1>1. Slots' = Slots
  BY DEF Slots
<1>2. ASSUME NEW i \in Slots, conns'[i].active
      PROVE  Carries(conns'[i], peers'[conns'[i].peer])
  <2>1. Carries(conns[i], peers[conns[i].peer])
    BY <1>2, StreamsParts
  <2>2. QED
    BY <1>2, <2>1 DEF Carries
<1>3. QED
  BY <1>1, <1>2, StreamsParts

(* Putting three sequences together in either order. *)
Joins(w, s, q) == (w \o s) \o q = w \o (s \o q)

LEMMA Joined ==
    ASSUME NEW w, w \in Seq(Bytes), NEW s, s \in Seq(Bytes), NEW q, q \in Seq(Bytes)
    PROVE  Joins(w, s, q)
BY ConcatAssociative DEF Joins

LEMMA PeerStreamStays ==
    ASSUME NEW r, NEW s, PeerStream(r), s.wire = r.wire, s.written = r.written
    PROVE  PeerStream(s)
BY DEF PeerStream

LEMMA NothingCarried ==
    /\ \A r, phase, ends, left : PeerStream(Parted(r, phase, ends, left))
    /\ \A p, r : r.wire = <<>> /\ r.written = 0 => Carries(Fresh(p), r)
<1>1. ASSUME NEW r, NEW phase, NEW ends, NEW left
      PROVE  PeerStream(Parted(r, phase, ends, left))
  <2>1. PICK s : s = Parted(r, phase, ends, left)
    OBVIOUS
  <2>2. s.wire = <<>> /\ s.written = 0
    BY <2>1 DEF Parted
  <2>3. <<>> \in Seq(Bytes) /\ Len(<<>>) = 0
    OBVIOUS
  <2>4. QED
    BY <2>1, <2>2, <2>3 DEF PeerStream
<1>2. ASSUME NEW p, NEW r, r.wire = <<>>, r.written = 0
      PROVE  Carries(Fresh(p), r)
  <2>1. PICK c, t : c = Fresh(p) /\ t = EmptyRing
    OBVIOUS
  <2>2. c.tx = t /\ c.line = {} /\ c.peer = p
    BY <2>1 DEF Fresh
  <2>3. Holds(Bytes, t, <<>>) /\ Content(t) = <<>>
    BY <2>1, EmptyHolds DEF Bytes, Holds
  <2>4. <<>> \o <<>> = Numbers(0)
    <3>1. Numbers(0) \in Seq(Nat) /\ Len(Numbers(0)) = 0
      BY DEF Numbers
    <3>2. QED
      BY <3>1, EmptySeq, ConcatEmptySeq
  <2>5. QED
    BY <1>2, <2>1, <2>2, <2>3, <2>4 DEF Carries
<1>3. QED
  BY <1>1, <1>2

(* Bytes that leave the ring are appended to what the peer got. *)
LEMMA FlushCarries ==
    ASSUME NEW r, PeerStream(r), NEW c, Carries(c, r), NEW n, n \in 0 .. c.tx.count
    PROVE  /\ r.wire \o Chunks(c.tx, n) \in Seq(Bytes)
           /\ Holds(Bytes, popped(c.tx, n), Content(popped(c.tx, n)))
           /\ Content(popped(c.tx, n)) \in Seq(Bytes)
           /\ (r.wire \o Chunks(c.tx, n)) \o Content(popped(c.tx, n)) = Numbers(r.written)
           /\ \A j \in 1 .. Len(r.wire \o Chunks(c.tx, n)) : (r.wire \o Chunks(c.tx, n))[j] = j
<1>1. PICK w, t : w = r.wire /\ t = c.tx
  OBVIOUS
<1>2. PICK s, q : s = Chunks(t, n) /\ q = Content(popped(t, n))
  OBVIOUS
<1>3. Holds(Bytes, t, Content(t)) /\ n \in 0 .. t.count
  BY <1>1 DEF Carries
<1>4. /\ Holds(Bytes, popped(t, n), q) /\ q \in Seq(Bytes) /\ s \in Seq(Bytes)
      /\ Content(t) = s \o q
  <2>1. /\ Holds(Bytes, popped(t, n), Content(popped(t, n)))
        /\ Content(popped(t, n)) \in Seq(Bytes) /\ Chunks(t, n) \in Seq(Bytes)
        /\ Content(t) = Chunks(t, n) \o Content(popped(t, n))
    BY <1>3, FlushHolds
  <2>2. QED
    BY <1>2, <2>1, Zenon
<1>5. w \in Seq(Bytes) /\ w \o Content(t) = Numbers(r.written) /\ r.written \in Nat
  BY <1>1 DEF PeerStream, Carries
<1>6. (w \o s) \o q = Numbers(r.written)
  <2>1. w \in Seq(Bytes) /\ s \in Seq(Bytes) /\ q \in Seq(Bytes)
    BY <1>4, <1>5
  <2>2. Joins(w, s, q)
    BY <2>1, Joined, Zenon
  <2>3. QED
    BY <1>4, <1>5, <2>2, Zenon DEF Joins
<1>7. w \o s \in Seq(Bytes)
  BY <1>4, <1>5, ConcatProperties
<1>8. \A j \in 1 .. Len(w \o s) : (w \o s)[j] = j
  BY <1>4, <1>5, <1>6, <1>7, CarriesStream
<1>9. QED
  BY <1>1, <1>2, <1>4, <1>6, <1>7, <1>8

(* Bytes that write() takes wait behind the others. *)
LEMMA PutCarries ==
    ASSUME NEW w, w \in Seq(Bytes), NEW k, k \in Nat, NEW t, Holds(Bytes, t, Content(t)),
           Content(t) \in Seq(Bytes), w \o Content(t) = Numbers(k), NEW n, n \in Nat
    PROVE  LET taken == Fitting(t, Onward(k, n))
           IN  /\ Len(taken) \in Nat
               /\ Holds(Bytes, put(t, taken), Content(put(t, taken)))
               /\ w \o Content(put(t, taken)) = Numbers(k + Len(taken))
<1>1. PICK src, q : src = Onward(k, n) /\ q = Content(t)
  OBVIOUS
<1>2. src \in Seq(Bytes) /\ Len(src) = n /\ Holds(Bytes, t, q)
  <2>1. 0 \in 0 .. n
    OBVIOUS
  <2>2. QED
    BY <1>1, <2>1, NumbersGoOn
<1>3. PICK taken : taken = Fitting(t, src)
  OBVIOUS
<1>4. /\ Holds(Bytes, put(t, taken), q \o taken) /\ q \in Seq(Bytes)
      /\ \E m \in 0 .. Len(src) : taken = SubSeq(src, 1, m)
  BY <1>2, <1>3, PutHolds
<1>5. PICK m \in 0 .. n : taken = SubSeq(src, 1, m)
  BY <1>2, <1>4
<1>6. taken \in Seq(Bytes)
  BY <1>2, <1>5
<1>7. Len(taken) = m /\ Numbers(k) \o taken = Numbers(k + m)
  BY <1>1, <1>5, NumbersGoOn
<1>8. w \o (q \o taken) = (w \o q) \o taken
  <2>1. w \in Seq(Bytes) /\ q \in Seq(Bytes) /\ taken \in Seq(Bytes)
    BY <1>4, <1>6
  <2>2. Joins(w, q, taken)
    BY <2>1, Joined, Zenon
  <2>3. QED
    BY <2>2, Zenon DEF Joins
<1>9. w \o (q \o taken) = Numbers(k + Len(taken))
  BY <1>1, <1>7, <1>8
<1>10. Content(put(t, taken)) = q \o taken
  BY <1>4 DEF Holds
<1>11. Len(taken) \in Nat
  BY <1>7
<1>12. QED
  BY <1>1, <1>3, <1>4, <1>9, <1>10, <1>11, Zenon

(* A step of one connection and its peer. *)
LEMMA StreamsOne ==
    ASSUME StateInv, Attached, StreamsAgree, role' = role,
           NEW i \in Slots, conns[i].active, NEW c, NEW r,
           conns' = [conns EXCEPT ![i] = c], peers' = [peers EXCEPT ![conns[i].peer] = r],
           c.peer = conns[i].peer, Carries(c, r), PeerStream(r)
    PROVE  StreamsAgree'
<1>1. Slots' = Slots
  BY DEF Slots
<1>2. PICK p \in Peers : p = conns[i].peer
  BY DEF Attached
<1>3. /\ peers'[p] = r /\ \A q \in Peers : q # p => peers'[q] = peers[q]
      /\ conns'[i] = c /\ \A j \in Slots : j # i => conns'[j] = conns[j]
  BY <1>2 DEF StateInv
<1>4. \A q \in Peers : PeerStream(peers'[q])
  BY <1>3, StreamsParts
<1>5. ASSUME NEW j \in Slots, conns'[j].active
      PROVE  Carries(conns'[j], peers'[conns'[j].peer])
  <2>1. CASE j = i
    BY <1>2, <1>3, <2>1
  <2>2. CASE j # i
    <3>1. conns'[j] = conns[j] /\ conns[j].active
      BY <1>3, <1>5, <2>2
    <3>2. conns[j].peer # p /\ conns[j].peer \in Peers
      BY <1>2, <2>2, <3>1 DEF Attached
    <3>3. Carries(conns[j], peers[conns[j].peer])
      BY <3>1, StreamsParts
    <3>4. QED
      BY <1>3, <3>1, <3>2, <3>3
  <2>3. QED
    BY <2>1, <2>2
<1>6. QED
  BY <1>1, <1>4, <1>5, StreamsParts

LEMMA FlushStep ==
    ASSUME StateInv, Attached, StreamsAgree, NEW n \in 0 .. Capacity, Flush(n)
    PROVE  StreamsAgree'
<1>1. role' = role
  BY DEF Flush
<1>2. CASE UNCHANGED <<conns, peers>>
  <2>1. \A i \in Slots : conns[i].active => conns[i].line \subseteq {conns[i].peer}
    BY StreamsParts DEF Carries
  <2>2. \A p \in Peers : PeerStream(peers'[p])
    BY <1>2, StreamsParts
  <2>3. QED
    BY <1>1, <1>2, <2>1, <2>2, StreamsStay
<1>3. CASE ~ UNCHANGED <<conns, peers>>
  <2>1. PICK i \in Slots : i = frame.slot
    BY DEF StateInv
  <2>2. PICK p, t : p = conns[i].peer /\ t = conns[i].tx
    OBVIOUS
  <2>3. /\ conns[i].active /\ n \in 0 .. t.count /\ p \in Peers
        /\ conns' = [conns EXCEPT ![i] = [conns[i] EXCEPT !.tx = popped(t, n)]]
        /\ peers' = [peers EXCEPT ![p] = [peers[p] EXCEPT !.wire = peers[p].wire \o Chunks(t, n)]]
    <3>1. LET j == frame.slot
              q == conns[j].peer
          IN  /\ conns[j].active /\ n \in 0 .. conns[j].tx.count /\ q \in Peers
              /\ conns' = [conns EXCEPT ![j] = [conns[j] EXCEPT !.tx = popped(conns[j].tx, n)]]
              /\ peers' = [peers EXCEPT ![q] = [peers[q] EXCEPT
                             !.wire = peers[q].wire \o Chunks(conns[j].tx, n)]]
      BY <1>3, FlushEffect, Zenon
    <3>2. QED
      BY <2>1, <2>2, <3>1, Zenon
  <2>4. PICK w : w = peers[p].wire \o Chunks(t, n)
    OBVIOUS
  <2>5. PICK u : u = popped(t, n)
    OBVIOUS
  <2>6. PICK c : c = [conns[i] EXCEPT !.tx = u]
    OBVIOUS
  <2>7. PICK r : r = [peers[p] EXCEPT !.wire = w]
    OBVIOUS
  <2>8. /\ c.tx = u /\ c.line = conns[i].line /\ c.peer = p
        /\ r.wire = w /\ r.written = peers[p].written
    BY <2>2, <2>3, <2>6, <2>7 DEF StateInv
  <2>9. PeerStream(peers[p]) /\ Carries(conns[i], peers[p])
    BY <2>2, <2>3, StreamsParts
  <2>10. /\ w \in Seq(Bytes) /\ Holds(Bytes, u, Content(u)) /\ Content(u) \in Seq(Bytes)
         /\ w \o Content(u) = Numbers(peers[p].written)
         /\ \A j \in 1 .. Len(w) : w[j] = j
    <3>1. \E a, b : a = peers[p] /\ b = conns[i] /\ PeerStream(a) /\ Carries(b, a) /\ b.tx = t
      BY <2>2, <2>9
    <3>2. PICK a, b : a = peers[p] /\ b = conns[i] /\ PeerStream(a) /\ Carries(b, a) /\ b.tx = t
      BY <3>1
    <3>3. n \in 0 .. b.tx.count
      BY <2>3, <3>2
    <3>4. /\ a.wire \o Chunks(b.tx, n) \in Seq(Bytes)
          /\ Holds(Bytes, popped(b.tx, n), Content(popped(b.tx, n)))
          /\ Content(popped(b.tx, n)) \in Seq(Bytes)
          /\ (a.wire \o Chunks(b.tx, n)) \o Content(popped(b.tx, n)) = Numbers(a.written)
          /\ \A j \in 1 .. Len(a.wire \o Chunks(b.tx, n)) : (a.wire \o Chunks(b.tx, n))[j] = j
      BY <3>2, <3>3, FlushCarries
    <3>5. QED
      BY <2>4, <2>5, <3>2, <3>4, Zenon
  <2>11. PeerStream(r) /\ Carries(c, r)
    BY <2>2, <2>8, <2>9, <2>10 DEF PeerStream, Carries
  <2>12. conns' = [conns EXCEPT ![i] = c] /\ peers' = [peers EXCEPT ![conns[i].peer] = r]
    BY <2>2, <2>3, <2>4, <2>5, <2>6, <2>7, Zenon
  <2>13. QED
    BY <1>1, <2>2, <2>3, <2>8, <2>11, <2>12, StreamsOne
<1>4. QED
  BY <1>2, <1>3

LEMMA WriteStep ==
    ASSUME StateInv, Attached, StreamsAgree, NEW i \in Slots, NEW n \in 1 .. Capacity, write(i, n)
    PROVE  StreamsAgree'
<1> DEFINE src == [j \in 1 .. n |-> peers[conns[i].peer].written + j]
<1>1. conns[i].active /\ conns[i].peer \in Peers /\ role' = role
  BY WriteEffect, Zenon
<1>2. PICK k \in 0 .. Capacity :
        /\ k \in 0 .. conns[i].tx.count
        /\ conns' = [conns EXCEPT ![i] = [conns[i] EXCEPT !.tx = Written(i, k, src)]]
        /\ peers' = [peers EXCEPT ![conns[i].peer] =
             [[peers[conns[i].peer] EXCEPT !.wire = peers[conns[i].peer].wire
                                                     \o Chunks(conns[i].tx, k)]
                EXCEPT !.written = peers[conns[i].peer].written
                                     + Len(Fitting(popped(conns[i].tx, k), src))]]
  BY WriteEffect, Zenon
<1>3. src = Onward(peers[conns[i].peer].written, n)
  BY Zenon DEF Onward
<1> HIDE DEF src
<1>4. PICK p \in Peers : p = conns[i].peer
  BY <1>1
<1>5. PICK a, b : a = peers[p] /\ b = conns[i]
  OBVIOUS
<1>6. PeerStream(a) /\ Carries(b, a)
  BY <1>1, <1>4, <1>5, StreamsParts
<1>7. PICK w, u : w = a.wire \o Chunks(b.tx, k) /\ u = popped(b.tx, k)
  OBVIOUS
<1>8. /\ w \in Seq(Bytes) /\ Holds(Bytes, u, Content(u)) /\ Content(u) \in Seq(Bytes)
      /\ w \o Content(u) = Numbers(a.written)
  <2>1. k \in 0 .. b.tx.count
    BY <1>2, <1>5
  <2>2. /\ a.wire \o Chunks(b.tx, k) \in Seq(Bytes)
        /\ Holds(Bytes, popped(b.tx, k), Content(popped(b.tx, k)))
        /\ Content(popped(b.tx, k)) \in Seq(Bytes)
        /\ (a.wire \o Chunks(b.tx, k)) \o Content(popped(b.tx, k)) = Numbers(a.written)
    BY <1>6, <2>1, FlushCarries
  <2>3. QED
    BY <1>7, <2>2, Zenon
<1>9. PICK taken : taken = Fitting(u, Onward(a.written, n))
  OBVIOUS
<1>10. a.written \in Nat /\ n \in Nat
  BY <1>6 DEF PeerStream
<1>11. /\ Len(taken) \in Nat /\ Holds(Bytes, put(u, taken), Content(put(u, taken)))
       /\ w \o Content(put(u, taken)) = Numbers(a.written + Len(taken))
  <2>1. PICK m : m = a.written
    OBVIOUS
  <2>2. /\ m \in Nat /\ w \o Content(u) = Numbers(m) /\ taken = Fitting(u, Onward(m, n))
    BY <1>8, <1>9, <1>10, <2>1, Zenon
  <2>3. LET s == Fitting(u, Onward(m, n))
        IN  /\ Len(s) \in Nat /\ Holds(Bytes, put(u, s), Content(put(u, s)))
            /\ w \o Content(put(u, s)) = Numbers(m + Len(s))
    BY <1>8, <1>10, <2>2, PutCarries, Zenon
  <2>4. QED
    BY <2>1, <2>2, <2>3, Zenon
<1>12. PICK t, m : t = put(u, taken) /\ m = a.written + Len(taken)
  OBVIOUS
<1>13. PICK c : c = [b EXCEPT !.tx = t]
  OBVIOUS
<1>14. PICK d : d = [a EXCEPT !.wire = w]
  OBVIOUS
<1>15. PICK r : r = [d EXCEPT !.written = m]
  OBVIOUS
<1>16. /\ c.tx = t /\ c.line = b.line /\ c.peer = b.peer
       /\ r.wire = w /\ r.written = m
  BY <1>4, <1>5, <1>13, <1>14, <1>15 DEF StateInv
<1>17. \A j \in 1 .. Len(w) : w[j] = j
  BY <1>8, <1>10, CarriesStream
<1>18. PeerStream(r) /\ Carries(c, r)
  <2>1. /\ m \in Nat /\ w \o Content(t) = Numbers(m) /\ Holds(Bytes, t, Content(t))
    <3>1. m \in Nat
      BY <1>10, <1>11, <1>12
    <3>2. w \o Content(t) = Numbers(m) /\ Holds(Bytes, t, Content(t))
      BY <1>11, <1>12, Zenon
    <3>3. QED
      BY <3>1, <3>2
  <2>2. c.line \subseteq {c.peer}
    BY <1>6, <1>16 DEF Carries
  <2>3. QED
    BY <1>8, <1>16, <1>17, <2>1, <2>2 DEF PeerStream, Carries
<1>19. Written(i, k, src) = t
  BY <1>3, <1>4, <1>5, <1>7, <1>9, <1>12, Zenon DEF Written
<1>20. conns' = [conns EXCEPT ![i] = c]
  BY <1>2, <1>5, <1>13, <1>19, Zenon
<1>21. Fitting(popped(conns[i].tx, k), src) = taken
  BY <1>3, <1>4, <1>5, <1>7, <1>9, Zenon
<1>22. peers' = [peers EXCEPT ![conns[i].peer] = r]
  BY <1>2, <1>4, <1>5, <1>7, <1>12, <1>14, <1>15, <1>21, Zenon
<1>23. QED
  BY <1>1, <1>5, <1>16, <1>18, <1>20, <1>22, StreamsOne

(* A connection is attached to slot i: of p, which nothing was written for. *)
LEMMA StreamsAttach ==
    ASSUME StateInv, StreamsAgree, role' = role, NEW i \in Slots, NEW p \in Peers,
           conns' = [conns EXCEPT ![i] = Fresh(p)],
           peers'[p].wire = <<>>, peers'[p].written = 0,
           \A q \in Peers \ {p} : PeerStream(peers'[q]),
           \A j \in Slots \ {i} : conns[j].active => peers'[conns[j].peer] = peers[conns[j].peer]
    PROVE  StreamsAgree'
<1>1. Slots' = Slots
  BY DEF Slots
<1>2. conns'[i] = Fresh(p) /\ \A j \in Slots \ {i} : conns'[j] = conns[j]
  BY DEF StateInv
<1>3. PICK r : r = peers'[p]
  OBVIOUS
<1>4. PeerStream(r)
  <2>1. <<>> \in Seq(Bytes) /\ Len(<<>>) = 0
    OBVIOUS
  <2>2. r.wire = <<>> /\ r.written = 0
    BY <1>3, Zenon
  <2>3. QED
    BY <2>1, <2>2 DEF PeerStream
<1>5. \A q \in Peers : PeerStream(peers'[q])
  BY <1>3, <1>4
<1>6. Carries(Fresh(p), r)
  BY <1>3, NothingCarried
<1>7. ASSUME NEW j \in Slots, conns'[j].active
      PROVE  Carries(conns'[j], peers'[conns'[j].peer])
  <2>1. CASE j = i
    <3>1. Fresh(p).peer = p
      BY DEF Fresh
    <3>2. QED
      BY <1>2, <1>3, <1>6, <2>1, <3>1
  <2>2. CASE j # i
    <3>1. conns'[j] = conns[j] /\ conns[j].active
      BY <1>2, <1>7, <2>2
    <3>2. Carries(conns[j], peers[conns[j].peer])
      BY <3>1, StreamsParts
    <3>3. QED
      BY <2>2, <3>1, <3>2
  <2>3. QED
    BY <2>1, <2>2
<1>8. QED
  BY <1>1, <1>5, <1>7, StreamsParts

(* A step that closes the connections in S, and stops their peers. *)
LEMMA StreamsClosed ==
    ASSUME Attached, StreamsAgree, role' = role, NEW S \in SUBSET Slots,
           \A i \in Slots : IF i \in S THEN ~ conns'[i].active ELSE conns'[i] = conns[i],
           \A p \in Peers : IF Of(p, S)
                            THEN \E r, phase, ends, left : peers'[p] = Parted(r, phase, ends, left)
                            ELSE peers'[p] = peers[p]
    PROVE  StreamsAgree'
<1>1. \A p \in Peers : PeerStream(peers'[p])
  BY NothingCarried, StreamsParts
<1>2. ASSUME NEW i \in Slots, conns'[i].active
      PROVE  /\ conns[i].active /\ conns'[i] = conns[i] /\ conns[i].line \subseteq {conns[i].peer}
             /\ peers'[conns[i].peer] = peers[conns[i].peer]
  <2>1. i \notin S /\ conns[i].active /\ conns'[i] = conns[i]
    BY <1>2
  <2>2. conns[i].peer \in Peers /\ ~ Of(conns[i].peer, S)
    BY <2>1 DEF Attached, Of
  <2>3. conns[i].line \subseteq {conns[i].peer}
    BY <2>1, StreamsParts DEF Carries
  <2>4. QED
    BY <2>1, <2>2, <2>3
<1>3. QED
  BY <1>1, <1>2, StreamsStay

(* A step that leaves the connections alone, and what the peers got. *)
LEMMA StreamsKeep ==
    ASSUME Attached, StreamsAgree, role' = role, UNCHANGED conns,
           \A p \in Peers : peers'[p].wire = peers[p].wire /\ peers'[p].written = peers[p].written
    PROVE  StreamsAgree'
<1>1. \A p \in Peers : PeerStream(peers'[p])
  BY StreamsParts, PeerStreamStays
<1>2. \A i \in Slots : conns[i].active => conns[i].peer \in Peers /\ conns[i].line \subseteq {conns[i].peer}
  BY StreamsParts DEF Attached, Carries
<1>3. QED
  BY <1>1, <1>2, StreamsStay

LEMMA StreamsStep ==
    ASSUME StateInv, Attached, PeersAgree, StreamsAgree, [Next]_vars
    PROVE  StreamsAgree'
<1>1. role' = role
  BY GoesOn
<1>2. ASSUME NEW p \in Peers, PollAccepts(p) PROVE StreamsAgree'
  <2>1. PICK i \in Slots :
          /\ ~ conns[i].active /\ peers[p].phase = "waiting"
          /\ conns' = [conns EXCEPT ![i] = IF Listed(add(registry, i), i) THEN Fresh(p)
                                           ELSE NoConnection]
          /\ peers' = [peers EXCEPT ![p] = IF Listed(add(registry, i), i)
                                           THEN [peers[p] EXCEPT !.phase = "served"]
                                           ELSE Parted(peers[p], "served", peers[p].ends, TRUE)]
    BY <1>2, PollAcceptsEffect, Zenon
  <2>2. peers[p].wire = <<>> /\ peers[p].written = 0
    BY <2>1 DEF PeersAgree
  <2>3. \A j \in Slots : conns[j].active => conns[j].peer \in Peers \ {p}
    BY <2>1 DEF Attached
  <2>4. CASE Listed(add(registry, i), i)
    <3>1. /\ conns' = [conns EXCEPT ![i] = Fresh(p)]
          /\ peers' = [peers EXCEPT ![p] = [peers[p] EXCEPT !.phase = "served"]]
      BY <2>1, <2>4, Zenon
    <3>2. /\ peers'[p].wire = peers[p].wire /\ peers'[p].written = peers[p].written
          /\ \A q \in Peers \ {p} : peers'[q] = peers[q]
      BY <3>1 DEF StateInv
    <3>3. \A q \in Peers \ {p} : PeerStream(peers'[q])
      BY <3>2, StreamsParts
    <3>4. peers'[p].wire = <<>> /\ peers'[p].written = 0
      BY <2>2, <3>2, Zenon
    <3>5. QED
      BY <1>1, <2>3, <3>1, <3>2, <3>3, <3>4, StreamsAttach
  <2>5. CASE ~ Listed(add(registry, i), i)
    <3>1. /\ conns' = [conns EXCEPT ![i] = NoConnection]
          /\ peers' = [peers EXCEPT ![p] = Parted(peers[p], "served", peers[p].ends, TRUE)]
      BY <2>1, <2>5, Zenon
    <3>2. /\ peers'[p] = Parted(peers[p], "served", peers[p].ends, TRUE)
          /\ \A q \in Peers \ {p} : peers'[q] = peers[q]
      BY <3>1 DEF StateInv
    <3>3. \A q \in Peers : PeerStream(peers'[q])
      BY <3>2, NothingCarried, StreamsParts
    <3>4. \A j \in Slots : conns'[j].active => conns[j].active /\ conns'[j] = conns[j]
      BY <3>1 DEF StateInv, NoConnection
    <3>5. \A j \in Slots : conns[j].active => conns[j].line \subseteq {conns[j].peer}
      BY StreamsParts DEF Carries
    <3>6. QED
      BY <1>1, <2>3, <3>2, <3>3, <3>4, <3>5, StreamsStay
  <2>6. QED
    BY <2>4, <2>5
<1>3. ASSUME NEW p \in Peers, PollRefuses(p) PROVE StreamsAgree'
  <2>1. /\ peers[p].phase = "waiting" /\ UNCHANGED conns
        /\ peers' = [peers EXCEPT ![p] = Parted(peers[p], "refused", peers[p].ends, peers[p].left)]
    BY <1>3, PollRefusesEffect
  <2>2. peers[p].wire = <<>> /\ peers[p].written = 0
    BY <2>1 DEF PeersAgree
  <2>3. /\ peers'[p].wire = <<>> /\ peers'[p].written = 0
        /\ \A q \in Peers : q # p => peers'[q] = peers[q]
    BY <2>1 DEF StateInv, Parted
  <2>4. \A q \in Peers : peers'[q].wire = peers[q].wire /\ peers'[q].written = peers[q].written
    BY <2>2, <2>3, Zenon
  <2>5. QED
    BY <1>1, <2>1, <2>4, StreamsKeep
<1>4. CASE PollEnd
  <2>1. UNCHANGED conns
    BY <1>4 DEF PollEnd
  <2>2. CASE closed_by_peer(frame.slot)
    <3>1. PICK p : peers' = [peers EXCEPT ![p].ends = @ + 1]
      BY <1>4, <2>2 DEF PollEnd
    <3>2. \A q \in Peers : peers'[q].wire = peers[q].wire /\ peers'[q].written = peers[q].written
      BY <3>1 DEF StateInv
    <3>3. QED
      BY <1>1, <2>1, <3>2, StreamsKeep
  <2>3. CASE ~ closed_by_peer(frame.slot)
    BY <1>1, <1>4, <2>1, <2>3, StreamsKeep DEF PollEnd
  <2>4. QED
    BY <2>2, <2>3
<1>5. CASE CallbackReturns
  <2>1. CASE At("on_close")
    <3>1. PICK i \in Slots : i = frame.slot
      BY DEF StateInv
    <3>2. /\ conns' = [conns EXCEPT ![i] = NoConnection]
          /\ peers' = [p \in Peers |-> IF Of(p, {i})
                                       THEN Parted(peers[p], peers[p].phase, peers[p].ends,
                                                   peers[p].left)
                                       ELSE peers[p]]
      BY <1>5, <2>1, <3>1, ClosedEffect
    <3>3. \A j \in Slots : IF j \in {i} THEN ~ conns'[j].active ELSE conns'[j] = conns[j]
      BY <3>2 DEF StateInv, NoConnection
    <3>4. QED
      BY <1>1, <3>2, <3>3, StreamsClosed
  <2>2. CASE ~ At("on_close")
    BY <1>1, <1>5, <2>2, StreamsKeep DEF CallbackReturns, At
  <2>3. QED
    BY <2>1, <2>2
<1>6. ASSUME NEW i \in Slots, NEW n \in 1 .. MaxInput, read(i, n) \/ read_line(i, n)
      PROVE  StreamsAgree'
  <2>1. PICK p, m : peers' = [peers EXCEPT ![p].input = m]
    BY <1>6 DEF read, read_line, Take
  <2>2. \A q \in Peers : peers'[q].wire = peers[q].wire /\ peers'[q].written = peers[q].written
    BY <2>1 DEF StateInv
  <2>3. CASE read(i, n)
    BY <1>1, <2>2, <2>3, StreamsKeep DEF read
  <2>4. CASE read_line(i, n)
    <3>1. PICK l : /\ conns' = [conns EXCEPT ![i].line = l]
                   /\ l \subseteq conns[i].line \cup {conns[i].peer}
      BY <2>4 DEF read_line
    <3>2. \A j \in Slots : /\ conns'[j].active = conns[j].active /\ conns'[j].peer = conns[j].peer
                           /\ conns'[j].tx = conns[j].tx
                           /\ conns'[j].line = IF j = i THEN l ELSE conns[j].line
      BY <3>1 DEF StateInv
    <3>3. \A j \in Slots : conns[j].active =>
            conns[j].peer \in Peers /\ conns[j].line \subseteq {conns[j].peer}
      BY StreamsParts DEF Attached, Carries
    <3>4. \A q \in Peers : PeerStream(peers'[q])
      BY <2>2, StreamsParts, PeerStreamStays
    <3>5. QED
      BY <1>1, <2>2, <3>1, <3>2, <3>3, <3>4, StreamsStay
  <2>5. QED
    BY <1>6, <2>3, <2>4
<1>7. ASSUME NEW i \in Slots, NEW remove \in BOOLEAN, CloseConnection(i, remove)
      PROVE  StreamsAgree'
  <2>1. /\ conns' = [conns EXCEPT ![i] = NoConnection]
        /\ peers' = [p \in Peers |-> IF Of(p, {i})
                                     THEN Parted(peers[p], peers[p].phase, peers[p].ends, TRUE)
                                     ELSE peers[p]]
    BY <1>7, CloseConnectionEffect
  <2>2. \A j \in Slots : IF j \in {i} THEN ~ conns'[j].active ELSE conns'[j] = conns[j]
    BY <2>1 DEF StateInv, NoConnection
  <2>3. QED
    BY <1>1, <2>1, <2>2, StreamsClosed
<1>8. CASE Close
  <2>1. /\ conns' = [i \in Slots |-> NoConnection]
        /\ peers' = [p \in Peers |->
                       IF peers[p].phase = "waiting"
                       THEN Parted(peers[p], "refused", peers[p].ends, peers[p].left)
                       ELSE IF Of(p, Slots) THEN Parted(peers[p], peers[p].phase, peers[p].ends, TRUE)
                            ELSE peers[p]]
    BY <1>8, CloseEffect
  <2>2. \A p \in Peers : PeerStream(peers'[p])
    BY <2>1, NothingCarried, StreamsParts
  <2>3. \A i \in Slots : ~ conns'[i].active
    BY <2>1 DEF NoConnection
  <2>4. QED
    BY <1>1, <2>2, <2>3, StreamsStay
<1>9. ASSUME NEW p \in Peers, connect(p) PROVE StreamsAgree'
  <2>1. /\ role = "client" /\ peers[p].phase = "new"
        /\ \A q \in Peers \ {p} : peers'[q] =
             IF Of(q, {0}) THEN Parted(peers[q], peers[q].phase, peers[q].ends, TRUE) ELSE peers[q]
    BY <1>9, ConnectEffect
  <2>2. Slots = {0}
    BY <2>1, Sizes
  <2>3. \A q \in Peers \ {p} : PeerStream(peers'[q])
    BY <2>1, NothingCarried, StreamsParts
  <2>4. CASE /\ conns' = [conns EXCEPT ![0] = NoConnection]
             /\ peers'[p] = Parted(peers[p], "served", 1, peers[p].left)
    <3>1. \A q \in Peers : PeerStream(peers'[q])
      BY <2>3, <2>4, NothingCarried
    <3>2. \A i \in Slots : ~ conns'[i].active
      BY <2>2, <2>4 DEF StateInv, NoConnection
    <3>3. QED
      BY <1>1, <3>1, <3>2, StreamsStay
  <2>5. CASE /\ conns' = [conns EXCEPT ![0] = Fresh(p)]
             /\ peers'[p] = [peers[p] EXCEPT !.phase = "served"]
    <3>1. peers[p].wire = <<>> /\ peers[p].written = 0
      BY <2>1 DEF PeersAgree
    <3>2. peers'[p].wire = peers[p].wire /\ peers'[p].written = peers[p].written
      BY <2>5 DEF StateInv
    <3>3. peers'[p].wire = <<>> /\ peers'[p].written = 0
      BY <3>1, <3>2, Zenon
    <3>4. QED
      BY <1>1, <2>2, <2>3, <2>5, <3>3, StreamsAttach
  <2>6. QED
    BY <1>9, <2>4, <2>5, ConnectEffect, Zenon
<1>10. ASSUME NEW p \in Peers, Arrive(p) \/ PeerSends(p) \/ PeerEnds(p) PROVE StreamsAgree'
  <2>1. CASE Arrive(p)
    <3>1. peers' = [peers EXCEPT ![p].phase = "waiting"]
      BY <2>1 DEF Arrive
    <3>2. \A q \in Peers : peers'[q].wire = peers[q].wire /\ peers'[q].written = peers[q].written
      BY <3>1 DEF StateInv
    <3>3. QED
      BY <1>1, <2>1, <3>2, StreamsKeep DEF Arrive
  <2>2. ASSUME ~ Arrive(p)
        PROVE  \A q \in Peers : peers'[q].wire = peers[q].wire /\ peers'[q].written = peers[q].written
    <3>1. \/ peers' = [peers EXCEPT ![p].input = @ + 1]
          \/ peers' = [peers EXCEPT ![p].ended = TRUE]
      BY <1>10, <2>2 DEF PeerSends, PeerEnds
    <3>2. QED
      BY <3>1 DEF StateInv
  <2>3. UNCHANGED conns
    BY <1>10 DEF Arrive, PeerSends, PeerEnds
  <2>4. QED
    BY <1>1, <2>1, <2>2, <2>3, StreamsKeep
<1>11. CASE PollConnections \/ PollInput \/ prune_invalid \/ listen \/ UNCHANGED vars
  <2>1. UNCHANGED <<conns, peers>>
    BY <1>11 DEF PollConnections, PollInput, prune_invalid, listen, vars
  <2>2. QED
    BY <1>1, <2>1, StreamsKeep
<1>12. ASSUME NEW n \in 0 .. Capacity, Flush(n) PROVE StreamsAgree'
  BY <1>12, FlushStep
<1>13. ASSUME NEW i \in Slots, NEW n \in 1 .. Capacity, write(i, n) PROVE StreamsAgree'
  BY <1>13, WriteStep
<1>14. QED
  BY <1>2, <1>3, <1>4, <1>5, <1>6, <1>7, <1>8, <1>9, <1>10, <1>11, <1>12, <1>13
     DEF Next, Poll, Application

-----------------------------------------------------------------------------
(* The theorems. *)

LEMMA WifiInit == Init => WifiInv
<1> SUFFICES ASSUME Init PROVE WifiInv
  OBVIOUS
<1>1. \A i \in Slots : conns[i] = NoConnection
  BY DEF Init
<1>2. \A i \in Slots : IsConnection(conns[i]) /\ ~ conns[i].active
  <2>1. IsConnection(NoConnection)
    BY DEF NoConnection, IsConnection
  <2>2. ~ NoConnection.active
    BY DEF NoConnection
  <2>3. QED
    BY <1>1, <2>1, <2>2, Zenon
<1>3. PICK none : none = <<>>
  OBVIOUS
<1>4. peers = [p \in Peers |-> [phase |-> "new", ended |-> FALSE, input |-> 0, wire |-> none,
                                written |-> 0, ends |-> 0, left |-> FALSE]]
  BY <1>3, Zenon DEF Init
<1>5. \A p \in Peers : IsPeer(peers[p])
  BY <1>4 DEF IsPeer
<1>6. \A p \in Peers : /\ peers[p].phase = "new" /\ peers[p].ends = 0 /\ ~ peers[p].ended
                       /\ peers[p].wire = none /\ peers[p].written = 0
  BY <1>4
<1>7. StateInv
  <2>1. MaxConnections \in Nat \ {0}
    BY WifiAssumption
  <2>2. 0 \in Slots
    BY <2>1 DEF Slots
  <2>3. /\ conns = [i \in Slots |-> conns[i]] /\ peers = [p \in Peers |-> peers[p]]
        /\ role \in Roles /\ active \in BOOLEAN
        /\ frame = [at |-> "idle", slot |-> 0]
    BY <1>4 DEF Init, Idle
  <2>4. QED
    BY <1>2, <1>5, <2>2, <2>3 DEF StateInv, IsConnection, IsPeer
<1>8. Attached /\ PeersAgree /\ EndToldOnce
  BY <1>2, <1>3, <1>6 DEF Attached, PeersAgree, EndToldOnce
<1>9. EntriesAgree /\ RegistryTracks
  <2>1. PICK f : f = [e \in Entries |-> Null]
    OBVIOUS
  <2>2. registry = [entries |-> f, count |-> 0]
    BY <2>1, Zenon DEF Init
  <2>3. {e \in Entries : registry.entries[e] # Null} = {}
    BY <2>1, <2>2
  <2>4. EntriesAgree
    BY <2>1, <2>2 DEF EntriesAgree
  <2>5. registry.count = 0
    BY <2>2
  <2>6. QED
    BY <1>2, <2>3, <2>4, <2>5, FS_EmptySet DEF RegistryTracks
<1>10. RingsAgree /\ StreamsKept
  <2>1. none \in Seq(Nat \cup {Blank}) /\ Len(none) = 0
    BY <1>3
  <2>2. \A p \in Peers : /\ peers[p].wire \in Seq(Nat \cup {Blank}) /\ Len(peers[p].wire) = 0
                         /\ peers[p].written \in Nat
    <3> TAKE p \in Peers
    <3>1. peers[p].wire = none /\ peers[p].written = 0
      BY <1>6, Zenon
    <3>2. QED
      BY <2>1, <3>1
  <2>3. RingsAgree
    BY <1>2, <2>2 DEF RingsAgree
  <2>4. StreamsKept
    <3>1. \A p \in Peers : \A j \in 1 .. Len(peers[p].wire) : FALSE
      BY <2>2
    <3>2. QED
      BY <1>2, <3>1, Zenon DEF StreamsKept
  <2>5. QED
    BY <2>3, <2>4
<1>11. QED
  BY <1>7, <1>8, <1>9, <1>10 DEF WifiInv

LEMMA WifiStep ==
    ASSUME AppUse = "careful", WifiInv, [Next]_vars
    PROVE  WifiInv'
<1>1. StateInv /\ Attached /\ EndsAgree /\ RegistryAgrees /\ StreamsAgree
  BY DEF WifiInv, EndsAgree, RegistryAgrees, StreamsAgree
<1>2. StateInv' /\ EndsAgree' /\ RegistryAgrees'
  BY <1>1, StateStep, EndsStep, RegistryStep
<1>3. StreamsAgree'
  BY <1>1, StreamsStep DEF EndsAgree
<1>4. QED
  BY <1>2, <1>3 DEF WifiInv, EndsAgree, RegistryAgrees, StreamsAgree

(* Whatever the callbacks do, except connect() in the client's on_close().  *)
THEOREM WifiSafety == AppUse = "careful" /\ Spec => []WifiInv
<1> SUFFICES ASSUME AppUse = "careful" PROVE Spec => []WifiInv
  OBVIOUS
<1>1. WifiInv /\ [Next]_vars => WifiInv'
  BY WifiStep
<1>2. QED
  BY <1>1, WifiInit, PTL DEF Spec

(* poll() reports the end of every connection that the application did not  *)
(* close itself, once, and after all its input, also with other connections *)
(* closed and accepted by the callbacks in between.                         *)
THEOREM WifiEndToldOnce == AppUse = "careful" /\ Spec => []EndToldOnce
<1>1. WifiInv => EndToldOnce
  BY DEF WifiInv
<1>2. QED
  BY <1>1, WifiSafety, PTL

(* The registry of a handler that adds in on_accept() and removes in        *)
(* on_close() counts its entries and lists every open connection once,      *)
(* although handlers close connections with or without removing them.       *)
THEOREM WifiRegistryTracks == AppUse = "careful" /\ Spec => []RegistryTracks
<1>1. WifiInv => RegistryTracks
  BY DEF WifiInv
<1>2. QED
  BY <1>1, WifiSafety, PTL

(* Of what write() has taken for a peer, the bytes that have reached it and *)
(* those in the ring are all, and in order, for every capacity, partial     *)
(* flush and way the ring wraps; and read_line() has buffered no bytes of   *)
(* an earlier peer of the slot.                                             *)
THEOREM WifiStreamsKept == AppUse = "careful" /\ Spec => []StreamsKept
<1>1. WifiInv => StreamsKept
  BY DEF WifiInv
<1>2. QED
  BY <1>1, WifiSafety, PTL

=============================================================================
