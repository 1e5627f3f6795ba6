--------------------------- MODULE Axi4liteProofs ---------------------------
(***************************************************************************)
(* The AXI4-Lite agent for any items, payloads and any number of           *)
(* transactions, against every slave of the three policies: types, the     *)
(* stability of requests, and that the monitor tells what happened.        *)
(***************************************************************************)
EXTENDS Axi4lite, TLAPS

Transactions == [dir : {"WRITE", "READ"}, addr : Addrs, resp : Resps, data : Words]
Answers == [resp : Resps, data : Words]

LEMMA AnyValues == AnyWord \in Words /\ NoReply \in Answers
<1>1. AnyWord \in Words /\ (CHOOSE r \in Resps : TRUE) \in Resps
  BY Axi4liteAssumption DEF AnyWord
<1> QED
  BY <1>1 DEF NoReply, Answers

LEMMA ItemTyped ==
    ASSUME NEW item \in Items
    PROVE  item.dir \in {"WRITE", "READ"} /\ item.addr \in Addrs /\ item.data \in Words
BY Axi4liteAssumption

LEMMA FilledTyped ==
    ASSUME NEW item \in Items, NEW rep \in Answers PROVE Filled(item, rep) \in Transactions
BY ItemTyped DEF Filled, Transactions, Answers

LEMMA AppendTyped ==
    ASSUME NEW S, NEW s \in Seq(S), NEW e \in S
    PROVE  /\ Append(s, e) \in Seq(S) /\ s \o <<e>> = Append(s, e) /\ s \o <<>> = s
           /\ Len(Append(s, e)) = Len(s) + 1 /\ SubSeq(Append(s, e), 1, Len(s)) = s
           /\ SubSeq(s, 1, Len(s)) = s
OBVIOUS

-----------------------------------------------------------------------------
(* The inductive invariant                                                 *)

\* The requests of the current item that lie behind the driver.
Passed == CASE pc = "W" -> {"AW"}
            [] pc = "B" -> {"AW", "W"}
            [] pc = "R" -> {"AR"}
            [] OTHER -> {}

\* The driver is at a channel of the current item, offers there only, and
\* offers what the item says.  READY of a response stays up until item_done.
DriverInv ==
    /\ pc # "idle" => todo # <<>>
    /\ pc \in {"AW", "W", "B"} => Head(todo).dir = "WRITE"
    /\ pc \in {"AR", "R"} => Head(todo).dir = "READ"
    /\ \A c \in Channels : offer[c] => c = pc \/ (pc = "last" /\ c \in Responses)
    /\ pc \in Requests => sent[pc] = Payload(Head(todo))[pc]

\* Slave and monitor have taken the same requests, all of the current item, and
\* a response is there only when they are complete.
BusInv ==
    /\ taken \subseteq Passed /\ seen = taken /\ latch = store
    /\ \A c \in taken : store[c] = Payload(Head(todo))[c]
    /\ \A r \in Responses : answer[r] => Needs(r) \subseteq taken

\* What was served, filled in and published is the same but for the response
\* that is on the bus.
RecordInv ==
    /\ done \in Seq(Transactions) /\ reply \in [Responses -> Answers]
    /\ published = done
    /\ (\A r \in Responses : ~answer[r]) => served = done
    /\ \A r \in Responses : answer[r] => served = Append(done, Filled(Head(todo), reply[r]))

IInv == TypeOK /\ DriverInv /\ BusInv /\ RecordInv

LEMMA InitInvariant == Init => IInv
<1> SUFFICES ASSUME Init PROVE IInv
  OBVIOUS
<1>1. todo \in Seq(Items)
  BY Axi4liteAssumption DEF Init
<1>2. TypeOK
  <2>1. offer \in [Channels -> BOOLEAN] /\ \A c \in Channels : offer[c] = FALSE
    BY DEF Init, NoSignal
  <2> QED
    BY <1>1, <2>1 DEF Init, TypeOK, NoSignal, Channels, Requests, Responses
<1>3. DriverInv /\ BusInv
  BY DEF Init, DriverInv, BusInv, NoSignal, Channels, Requests, Responses
<1>4. RecordInv
  BY AnyValues DEF Init, RecordInv, NoSignal, Channels, Responses
<1> QED
  BY <1>2, <1>3, <1>4 DEF IInv

-----------------------------------------------------------------------------
(* The driver                                                              *)

\* Wherever the driver stops, it is at a channel of the item, not before the
\* k-th, offers there and only there, and has put the payload out.
LEMMA ProceedStops ==
    ASSUME NEW item \in Items, NEW k \in DOMAIN Path(item), NEW up, Proceed(item, k, up)
    PROVE  /\ \E j \in k .. Len(Path(item)) : pc' = Path(item)[j]
           /\ offer' = [c \in Channels |-> c = pc']
           /\ pc' \in Requests => sent'[pc'] = Payload(item)[pc']
<1> DEFINE path == Path(item)
           Stops(j) == /\ j = Len(path) \/ ~up[path[j]]
                       /\ \A i \in k .. j - 1 : up[path[i]]
           stop == CHOOSE j \in k .. Len(path) : Stops(j)
<1>1. Len(path) \in Nat /\ k \in 1 .. Len(path) /\ Len(path) <= 3
  BY DEF Path
<1>2. \E j \in k .. Len(path) : Stops(j)
  <2>1. CASE up[path[k]] /\ k < Len(path)
    <3>1. CASE up[path[k + 1]] /\ k + 1 < Len(path)
      <4>1. k + 2 = Len(path)
        BY <1>1, <3>1
      <4>2. \A i \in k .. (k + 2) - 1 : i = k \/ i = k + 1
        BY <1>1
      <4>3. Stops(k + 2)
        BY <2>1, <3>1, <4>1, <4>2
      <4> QED
        BY <1>1, <4>1, <4>3
    <3>2. CASE ~(up[path[k + 1]] /\ k + 1 < Len(path))
      <4>1. \A i \in k .. (k + 1) - 1 : i = k
        BY <1>1
      <4>2. k + 1 \in k .. Len(path)
        BY <1>1, <2>1
      <4>3. Stops(k + 1)
        BY <1>1, <2>1, <3>2, <4>1, <4>2
      <4> QED
        BY <4>2, <4>3
    <3> QED
      BY <3>1, <3>2
  <2>2. CASE ~(up[path[k]] /\ k < Len(path))
    <3>1. \A i \in k .. k - 1 : FALSE
      BY <1>1
    <3>2. Stops(k)
      BY <1>1, <2>2, <3>1
    <3> QED
      BY <1>1, <3>2
  <2> QED
    BY <2>1, <2>2
<1>3. stop \in k .. Len(path)
  BY <1>2
<1>4. /\ pc' = path[stop]
      /\ offer' = [c \in Channels |-> c = path[stop]]
      /\ sent' = [c \in Requests |-> IF c \in {path[i] : i \in k .. stop}
                                     THEN Payload(item)[c] ELSE sent[c]]
  BY DEF Proceed
<1> HIDE DEF stop
<1>5. pc' \in {path[i] : i \in k .. stop}
  BY <1>1, <1>3, <1>4
<1> QED
  BY <1>3, <1>4, <1>5

\* A new item, or none yet.
LEMMA NextItemStarts ==
    ASSUME NEW items \in Seq(Items), NextItem(items)
    PROVE  /\ todo' = items
           /\ \/ pc' = "idle" /\ offer' = NoSignal
              \/ /\ items # <<>> /\ Head(items) \in Items
                 /\ pc' \in IF Head(items).dir = "WRITE" THEN {"AW", "W", "B"} ELSE {"AR", "R"}
                 /\ offer' = [c \in Channels |-> c = pc']
                 /\ pc' \in Requests => sent'[pc'] = Payload(Head(items))[pc']
<1>1. todo' = items
  BY DEF NextItem
<1>2. CASE pc' = "idle" /\ offer' = NoSignal
  BY <1>1, <1>2
<1>3. CASE items # <<>> /\ Proceed(Head(items), 1, answer')
  <2> DEFINE item == Head(items)
  <2>1. item \in Items
    BY <1>3
  <2>2. 1 \in DOMAIN Path(item) /\ Len(Path(item)) \in Nat
    BY DEF Path
  <2>3. /\ \E j \in 1 .. Len(Path(item)) : pc' = Path(item)[j]
        /\ offer' = [c \in Channels |-> c = pc']
        /\ pc' \in Requests => sent'[pc'] = Payload(item)[pc']
    BY <1>3, <2>1, <2>2, ProceedStops
  <2>4. pc' \in IF item.dir = "WRITE" THEN {"AW", "W", "B"} ELSE {"AR", "R"}
    BY <2>3 DEF Path
  <2> QED
    BY <1>1, <1>3, <2>1, <2>3, <2>4
<1> QED
  BY <1>2, <1>3 DEF NextItem

\* What the driver does at an edge, by where it is.
LEMMA DriveStep ==
    ASSUME IInv, Drive
    PROVE  /\ \/ /\ pc \in Channels /\ ~answer[pc] /\ UNCHANGED driver
              \/ /\ pc \in Requests /\ answer[pc] /\ pc' \in Channels
                 /\ Passed \cup {pc} \subseteq Passed' /\ UNCHANGED <<todo, done>>
              \/ /\ pc \in Responses /\ answer[pc] /\ pc' = "last"
                 /\ done' = Append(done, Filled(Head(todo), reply[pc]))
                 /\ UNCHANGED <<todo, offer, sent>>
              \/ pc \in {"last", "idle"} /\ UNCHANGED done
           /\ todo' \in Seq(Items) /\ pc' \in Channels \cup {"last", "idle"}
           /\ offer' \in [Channels -> BOOLEAN]
           /\ pc' \in Channels => offer'[pc']
           /\ \A c, d \in Channels : offer'[c] /\ offer'[d] => c = d
           /\ DriverInv'
<1> DEFINE Kept == /\ todo' \in Seq(Items) /\ pc' \in Channels \cup {"last", "idle"}
                   /\ offer' \in [Channels -> BOOLEAN]
                   /\ pc' \in Channels => offer'[pc']
                   /\ \A c, d \in Channels : offer'[c] /\ offer'[d] => c = d
                   /\ DriverInv'
<1> USE DEF IInv
<1>1. CASE Wait
  <2>1. pc \in Channels /\ ~answer[pc] /\ UNCHANGED driver
    BY <1>1 DEF Wait
  <2>2. Kept
    BY <2>1 DEF TypeOK, DriverInv, driver
  <2> QED
    BY <2>1, <2>2
<1>2. CASE Advance
  <2> DEFINE item == Head(todo)
  <2>1. pc \in Requests /\ answer[pc] /\ UNCHANGED <<todo, done>>
    BY <1>2 DEF Advance
  <2>2. PICK k \in DOMAIN Path(item) : Path(item)[k] = pc /\ Proceed(item, k + 1, answer)
    BY <1>2 DEF Advance
  <2>3. todo # <<>> /\ item \in Items
    BY <2>1 DEF TypeOK, DriverInv, Requests
  <2>4. k \in 1 .. Len(Path(item)) /\ k + 1 \in DOMAIN Path(item) /\ Len(Path(item)) \in Nat
    BY <2>1, <2>2 DEF Path, Requests
  <2>5. /\ \E j \in k + 1 .. Len(Path(item)) : pc' = Path(item)[j]
        /\ offer' = [c \in Channels |-> c = pc']
        /\ pc' \in Requests => sent'[pc'] = Payload(item)[pc']
    BY <2>2, <2>3, <2>4, ProceedStops
  <2>6. /\ pc' \in Channels /\ Passed \cup {pc} \subseteq Passed'
        /\ pc' \in {"AW", "W", "B"} => item.dir = "WRITE"
        /\ pc' \in {"AR", "R"} => item.dir = "READ"
    <3>1. CASE item.dir = "WRITE"
      BY <2>1, <2>2, <2>4, <2>5, <3>1 DEF Path, Requests, Responses, Channels, Passed
    <3>2. CASE item.dir = "READ"
      BY <2>1, <2>2, <2>4, <2>5, <3>2 DEF Path, Requests, Responses, Channels, Passed
    <3> QED
      BY <2>3, <3>1, <3>2, ItemTyped
  <2>7. DriverInv'
    BY <2>1, <2>3, <2>5, <2>6 DEF DriverInv
  <2>8. Kept
    BY <2>1, <2>5, <2>6, <2>7 DEF TypeOK
  <2> QED
    BY <2>1, <2>6, <2>8
<1>3. CASE Capture
  <2>1. /\ pc \in Responses /\ answer[pc] /\ pc' = "last"
        /\ done' = Append(done, Filled(Head(todo), reply[pc]))
        /\ UNCHANGED <<todo, offer, sent>>
    BY <1>3 DEF Capture
  <2>2. Kept
    BY <2>1 DEF TypeOK, DriverInv, Responses, Channels, Requests
  <2> QED
    BY <2>1, <2>2
<1>4. ASSUME NEW items \in Seq(Items), NextItem(items), pc \in {"last", "idle"}, UNCHANGED done
      PROVE  Kept
  <2>1. CASE pc' = "idle" /\ offer' = NoSignal
    BY <1>4, <2>1, NextItemStarts DEF DriverInv, NoSignal, Channels, Requests, Responses
  <2>2. CASE /\ items # <<>> /\ Head(items) \in Items
             /\ pc' \in IF Head(items).dir = "WRITE" THEN {"AW", "W", "B"} ELSE {"AR", "R"}
             /\ offer' = [c \in Channels |-> c = pc']
             /\ pc' \in Requests => sent'[pc'] = Payload(Head(items))[pc']
    <3>1. todo' = items
      BY <1>4, NextItemStarts
    <3>2. Head(items).dir \in {"WRITE", "READ"}
      BY <2>2, ItemTyped
    <3>3. pc' \in Channels
      BY <2>2 DEF Channels, Requests, Responses
    <3>4. DriverInv'
      BY <2>2, <3>1, <3>2, <3>3 DEF DriverInv
    <3> QED
      BY <2>2, <3>1, <3>3, <3>4
  <2> QED
    BY <1>4, <2>1, <2>2, NextItemStarts
<1>5. CASE pc = "last" /\ NextItem(Tail(todo)) /\ UNCHANGED done
  <2>1. Tail(todo) \in Seq(Items)
    BY <1>5 DEF TypeOK, DriverInv
  <2> QED
    BY <1>4, <1>5, <2>1
<1>6. CASE pc = "idle" /\ NextItem(todo) /\ UNCHANGED done
  BY <1>4, <1>6 DEF TypeOK
<1> QED
  BY <1>1, <1>2, <1>3, <1>5, <1>6 DEF Drive

-----------------------------------------------------------------------------
(* The bus                                                                 *)

\* At an edge at most the channel the driver waits at makes a transfer; a
\* response is up only there.
LEMMA Transfers ==
    ASSUME IInv
    PROVE  /\ \A c \in Requests : Handshake(c) <=> c = pc /\ answer[c]
           /\ \A r \in Responses : answer[r] => r = pc
           /\ \A r \in Responses : Handshake(r) <=> r = pc /\ answer[r]
<1> USE DEF IInv
<1>1. \A r \in Responses : answer[r] => r = pc
  BY DEF BusInv, Passed, Needs, Responses
<1>2. \A c \in Requests : offer[c] <=> c = pc
  BY DEF TypeOK, DriverInv, Requests, Responses, Channels
<1>3. \A r \in Responses : r = pc => offer[r]
  BY DEF TypeOK, Channels
<1> QED
  BY <1>1, <1>2, <1>3 DEF Handshake

\* Slave and monitor note the same requests.
LEMMA BusStep ==
    ASSUME IInv, Serve, Monitor
    PROVE  /\ seen' = taken' /\ latch' = store'
           /\ taken' \subseteq IF pc \in Requests /\ answer[pc] THEN Passed \cup {pc} ELSE Passed
           /\ \A c \in taken' : store'[c] = Payload(Head(todo))[c]
           /\ \A r \in Responses : answer'[r] => Needs(r) \subseteq taken'
           /\ pc \in Responses /\ answer[pc] => taken' = {}
           /\ answer' \in [Channels -> BOOLEAN] /\ policy' = policy /\ taken' \subseteq Requests
<1> USE DEF IInv
<1> DEFINE now == taken \cup {c \in Requests : Handshake(c)}
           ended == UNION {Needs(c) : c \in {d \in Responses : Handshake(d)}}
<1>1. /\ taken' = now \ ended
      /\ store' = [c \in Requests |-> IF Handshake(c) THEN sent[c] ELSE store[c]]
      /\ latch' = [c \in Requests |-> IF Handshake(c) THEN sent[c] ELSE latch[c]]
      /\ policy' = policy /\ seen' = now \ Closed(now)
  BY DEF Serve, Monitor, BusInv
<1>2. PICK up \in SUBSET Channels :
          /\ \A c \in Responses \cap up : Needs(c) \subseteq taken'
          /\ answer' = [c \in Channels |-> c \in up]
  BY <1>1 DEF Serve
<1>3. Closed(now) = ended
  <2>1. \A r \in Responses : Handshake(r) => Needs(r) \subseteq now
    BY DEF Handshake, BusInv
  <2>2. ended = (IF Handshake("B") THEN {"AW", "W"} ELSE {}) \cup (IF Handshake("R") THEN {"AR"} ELSE {})
    BY DEF Needs, Responses
  <2> QED
    BY <2>1, <2>2 DEF Closed, Needs, Responses
<1>4. latch' = store' /\ seen' = taken'
  BY <1>1, <1>3 DEF BusInv
<1>5. now \subseteq IF pc \in Requests /\ answer[pc] THEN Passed \cup {pc} ELSE Passed
  BY Transfers DEF BusInv
<1>6. taken' \subseteq now /\ now \subseteq Requests
  BY <1>1 DEF TypeOK
<1>7. \A c \in taken' : store'[c] = Payload(Head(todo))[c]
  <2> SUFFICES ASSUME NEW c \in taken' PROVE store'[c] = Payload(Head(todo))[c]
    OBVIOUS
  <2>1. c \in Requests /\ c \in now
    BY <1>6
  <2>2. CASE Handshake(c)
    BY <1>1, <2>1, <2>2, Transfers DEF DriverInv
  <2>3. CASE ~Handshake(c)
    BY <1>1, <2>1, <2>3 DEF BusInv
  <2> QED
    BY <2>2, <2>3
<1>8. ASSUME pc \in Responses, answer[pc] PROVE taken' = {}
  <2>1. now = taken /\ taken \subseteq Needs(pc)
    BY <1>8, Transfers DEF BusInv, Passed, Needs, Responses, Requests
  <2>2. Needs(pc) \subseteq ended
    BY <1>8, Transfers
  <2> QED
    BY <1>1, <2>1, <2>2
<1>9. \A r \in Responses : answer'[r] => Needs(r) \subseteq taken'
  BY <1>2 DEF Channels
<1>10. answer' \in [Channels -> BOOLEAN] /\ policy' = policy
  BY <1>1, <1>2
<1>11. taken' \subseteq Requests /\ taken' \subseteq IF pc \in Requests /\ answer[pc] THEN Passed \cup {pc} ELSE Passed
  BY <1>5, <1>6
<1> QED
  BY <1>4, <1>7, <1>8, <1>9, <1>10, <1>11

\* A response that comes up new is for what the slave took, and is noted.
LEMMA ServedStep ==
    ASSUME IInv, Serve
    PROVE  \/ /\ \A c \in Responses : answer'[c] => answer[c]
              /\ UNCHANGED <<reply, served>>
           \/ \E c \in Responses, r \in Resps, w \in Words :
                 /\ answer'[c] /\ ~answer[c]
                 /\ reply' = [reply EXCEPT ![c] = [resp |-> r, data |-> w]]
                 /\ served' = Append(served,
                       [dir |-> IF c = "B" THEN "WRITE" ELSE "READ",
                        addr |-> IF c = "B" THEN store'["AW"] ELSE store'["AR"],
                        resp |-> r, data |-> IF c = "B" THEN store'["W"] ELSE w])
BY DEF Serve

\* What the monitor publishes at the edge at which the driver takes a response
\* is what the driver fills in; at others it publishes nothing.
LEMMA PublishedStep ==
    ASSUME IInv, Serve, Monitor
    PROVE  published' = IF pc \in Responses /\ answer[pc]
                        THEN Append(published, Filled(Head(todo), reply[pc])) ELSE published
<1> USE DEF IInv
<1> DEFINE item == Head(todo)
           flags == seen \cup {c \in Requests : Handshake(c)}
<1>1. published' = published \o Completed(flags, latch')
  BY DEF Monitor
<1>2. published \in Seq(Transactions)
  BY DEF RecordInv
<1>3. CASE pc \in Responses /\ answer[pc]
  <2>1. item \in Items /\ Needs(pc) \subseteq taken /\ reply[pc] \in Answers
    BY <1>3 DEF TypeOK, DriverInv, BusInv, RecordInv, Responses
  <2>2. \A c \in taken : latch'[c] = Payload(item)[c]
    <3>1. \A c \in Requests : ~Handshake(c)
      BY <1>3, Transfers DEF Requests, Responses
    <3> QED
      BY <3>1 DEF Monitor, BusInv, TypeOK
  <2>3. Completed(flags, latch') = <<Filled(item, reply[pc])>>
    <3>1. CASE pc = "B"
      <4>1. Handshake("B") /\ ~Handshake("R") /\ {"AW", "W"} \subseteq flags
        BY <1>3, <2>1, <3>1, Transfers DEF Responses, Needs, BusInv
      <4>2. latch'["AW"] = item.addr /\ latch'["W"] = item.data /\ item.dir = "WRITE"
        BY <2>1, <2>2, <3>1 DEF Needs, Payload, DriverInv
      <4> QED
        BY <3>1, <4>1, <4>2 DEF Completed, Filled
    <3>2. CASE pc = "R"
      <4>1. Handshake("R") /\ ~Handshake("B") /\ "AR" \in flags
        BY <1>3, <2>1, <3>2, Transfers DEF Responses, Needs, BusInv
      <4>2. latch'["AR"] = item.addr /\ item.dir = "READ"
        BY <2>1, <2>2, <3>2 DEF Needs, Payload, DriverInv
      <4> QED
        BY <3>2, <4>1, <4>2 DEF Completed, Filled
    <3> QED
      BY <1>3, <3>1, <3>2 DEF Responses
  <2>4. Filled(item, reply[pc]) \in Transactions
    BY <2>1, FilledTyped
  <2> QED
    BY <1>1, <1>2, <1>3, <2>3, <2>4, AppendTyped
<1>4. CASE ~(pc \in Responses /\ answer[pc])
  <2>1. ~Handshake("B") /\ ~Handshake("R")
    BY <1>4, Transfers DEF Responses
  <2>2. Completed(flags, latch') = <<>>
    BY <2>1 DEF Completed
  <2>3. published \o <<>> = published
    BY <1>2
  <2> QED
    BY <1>1, <1>4, <2>2, <2>3
<1> QED
  BY <1>3, <1>4

-----------------------------------------------------------------------------
(* Every edge keeps the invariant                                          *)

LEMMA NextInvariant == IInv /\ [Next]_vars => IInv'
<1> SUFFICES ASSUME IInv, [Next]_vars PROVE IInv'
  OBVIOUS
<1>1. CASE UNCHANGED vars
  BY <1>1 DEF IInv, TypeOK, DriverInv, BusInv, RecordInv, Passed, vars, driver, slave, monitor
<1>2. CASE Next
  <2>1. Serve /\ Drive /\ Monitor
    BY <1>2 DEF Next
  <2>2. TypeOK' /\ DriverInv'
    BY <2>1, DriveStep, BusStep DEF IInv, TypeOK
  <2>3. taken' \subseteq Passed'
    <3>1. CASE pc \in Channels /\ ~answer[pc]
      <4>1. pc' = pc
        BY <2>1, <3>1, DriveStep DEF driver, Channels, Requests, Responses
      <4> QED
        BY <2>1, <3>1, <4>1, BusStep DEF Passed
    <3>2. CASE pc \in Requests /\ answer[pc]
      <4>1. Passed \cup {pc} \subseteq Passed'
        BY <2>1, <3>2, DriveStep DEF Requests, Responses
      <4> QED
        BY <2>1, <3>2, <4>1, BusStep
    <3>3. CASE pc \in Responses /\ answer[pc]
      BY <2>1, <3>3, BusStep
    <3>4. CASE pc \in {"last", "idle"}
      BY <2>1, <3>4, BusStep DEF Passed, Requests, Responses
    <3> QED
      BY <3>1, <3>2, <3>3, <3>4 DEF IInv, TypeOK, Channels
  <2>4. pc \in Channels => todo' = todo
    BY <2>1, DriveStep DEF driver, Channels, Requests, Responses
  <2>5. \A c \in taken' : store'[c] = Payload(Head(todo'))[c]
    <3>1. CASE pc \in Channels
      BY <2>1, <2>4, <3>1, BusStep
    <3>2. CASE pc \notin Channels
      BY <2>1, <3>2, BusStep DEF Passed, Channels, Requests, Responses
    <3> QED
      BY <3>1, <3>2
  <2>6. BusInv'
    BY <2>1, <2>3, <2>5, BusStep DEF BusInv
  <2>7. \A r \in Responses : answer'[r] => pc' = r
    BY <2>6 DEF BusInv, Passed, Needs, Responses
  <2>8. RecordInv'
    <3>1. reply' \in [Responses -> Answers]
      <4>1. reply \in [Responses -> Answers]
        BY DEF IInv, RecordInv
      <4>2. \A r \in Resps, w \in Words : [resp |-> r, data |-> w] \in Answers
        BY DEF Answers
      <4> QED
        BY <2>1, <4>1, <4>2, ServedStep
    <3>2. CASE pc \in Responses /\ answer[pc]
      <4>1. Head(todo) \in Items /\ reply[pc] \in Answers
        BY <3>2 DEF IInv, TypeOK, DriverInv, RecordInv, Responses
      <4>2. done' = Append(done, Filled(Head(todo), reply[pc])) /\ done' \in Seq(Transactions)
        <5>1. done' = Append(done, Filled(Head(todo), reply[pc]))
          BY <2>1, <3>2, DriveStep DEF Requests, Responses
        <5>2. Filled(Head(todo), reply[pc]) \in Transactions
          BY <4>1, FilledTyped
        <5>3. done \in Seq(Transactions)
          BY DEF IInv, RecordInv
        <5> QED
          BY <5>1, <5>2, <5>3, AppendTyped
      <4>3. published' = done'
        BY <2>1, <3>2, <4>2, PublishedStep DEF IInv, RecordInv
      <4>4. \A r \in Responses : ~answer'[r]
        BY <2>1, <3>2, BusStep DEF Needs, Responses
      <4>5. served' = served
        BY <2>1, <4>4, ServedStep
      <4> QED
        BY <3>1, <3>2, <4>2, <4>3, <4>4, <4>5 DEF IInv, RecordInv
    <3>3. CASE ~(pc \in Responses /\ answer[pc])
      <4>1. done' = done /\ published' = published
        BY <2>1, <3>3, DriveStep, PublishedStep DEF driver
      <4>2. (\A r \in Responses : ~answer[r]) /\ served = done
        BY <3>3, Transfers DEF IInv, RecordInv
      <4>3. CASE (\A c \in Responses : answer'[c] => answer[c]) /\ UNCHANGED <<reply, served>>
        BY <3>1, <4>1, <4>2, <4>3 DEF IInv, RecordInv
      <4>4. ASSUME NEW c \in Responses, NEW r \in Resps, NEW w \in Words,
                   answer'[c] /\ ~answer[c],
                   reply' = [reply EXCEPT ![c] = [resp |-> r, data |-> w]],
                   served' = Append(served,
                       [dir |-> IF c = "B" THEN "WRITE" ELSE "READ",
                        addr |-> IF c = "B" THEN store'["AW"] ELSE store'["AR"],
                        resp |-> r, data |-> IF c = "B" THEN store'["W"] ELSE w])
            PROVE  RecordInv'
        <5> DEFINE item == Head(todo')
        <5>1. pc' = c /\ Needs(c) \subseteq taken' /\ reply'[c] = [resp |-> r, data |-> w]
          BY <2>6, <2>7, <4>4 DEF BusInv, IInv, RecordInv
        <5>2. served' = Append(done, Filled(item, reply'[c]))
          <6>1. CASE c = "B"
            <7>1. store'["AW"] = item.addr /\ store'["W"] = item.data /\ item.dir = "WRITE"
              BY <2>2, <2>5, <5>1, <6>1 DEF Needs, Payload, DriverInv
            <7> QED
              BY <4>2, <4>4, <5>1, <6>1, <7>1 DEF Filled
          <6>2. CASE c = "R"
            <7>1. store'["AR"] = item.addr /\ item.dir = "READ"
              BY <2>2, <2>5, <5>1, <6>2 DEF Needs, Payload, DriverInv
            <7> QED
              BY <4>2, <4>4, <5>1, <6>2, <7>1 DEF Filled
          <6> QED
            BY <6>1, <6>2 DEF Responses
        <5>3. \A d \in Responses : answer'[d] => d = c
          BY <2>7, <5>1
        <5> QED
          BY <3>1, <4>1, <4>4, <5>2, <5>3 DEF IInv, RecordInv
      <4> QED
        BY <2>1, <4>3, <4>4, ServedStep DEF IInv
    <3> QED
      BY <3>2, <3>3
  <2> QED
    BY <2>2, <2>6, <2>8 DEF IInv
<1> QED
  BY <1>1, <1>2

\* The relation of driver, bus and monitor at every edge (do_write, do_read,
\* monitor_transactions).
THEOREM Invariant == Spec => []IInv
BY InitInvariant, NextInvariant, PTL DEF Spec

\* Types, and for any items one channel at a time (do_write, do_read).
THEOREM TypeCorrect == Spec => []TypeOK
<1>1. IInv => TypeOK
  BY DEF IInv
<1> QED
  BY <1>1, Invariant, PTL

\* Whatever the slave, the monitor publishes exactly what the driver filled in
\* and the slave did (monitor_transactions).
THEOREM MonitorIsFaithful == Spec => []MonitorFaithful
<1>1. ASSUME IInv PROVE MonitorFaithful
  <2>1. done \in Seq(Transactions) /\ published = done
    BY <1>1 DEF IInv, RecordInv
  <2>2. CASE \A r \in Responses : ~answer[r]
    BY <1>1, <2>1, <2>2 DEF IInv, RecordInv, MonitorFaithful
  <2>3. CASE \E r \in Responses : answer[r]
    <3>1. PICK r \in Responses : answer[r]
      BY <2>3
    <3>2. served = Append(done, Filled(Head(todo), reply[r]))
      BY <1>1, <3>1 DEF IInv, RecordInv
    <3>3. Filled(Head(todo), reply[r]) \in Transactions
      <4>1. Head(todo) \in Items
        BY <1>1, <3>1, Transfers DEF IInv, TypeOK, DriverInv, Responses
      <4> QED
        BY <1>1, <4>1, FilledTyped DEF IInv, RecordInv
    <3> QED
      BY <2>1, <3>2, <3>3, AppendTyped DEF MonitorFaithful
  <2> QED
    BY <2>2, <2>3
<1> QED
  BY <1>1, Invariant, PTL

\* A request on the bus stays until the slave takes it (the @(posedge) loops).
THEOREM RequestsStay == Spec => RequestsHeld
<1>1. ASSUME IInv, [Next]_vars, NEW c \in Requests, offer[c] /\ ~answer[c]
      PROVE  offer'[c] /\ sent'[c] = sent[c]
  <2>1. CASE UNCHANGED vars
    BY <1>1, <2>1 DEF vars, driver
  <2>2. CASE Next
    <3>1. pc = c
      BY <1>1 DEF IInv, DriverInv, Requests, Responses, Channels
    <3>2. UNCHANGED driver
      BY <1>1, <2>2, <3>1, DriveStep DEF Next, Requests, Responses
    <3> QED
      BY <1>1, <3>2 DEF driver
  <2> QED
    BY <1>1, <2>1, <2>2
<1>2. IInv /\ [Next]_vars => [\A c \in Requests : offer[c] /\ ~answer[c] => offer'[c] /\ sent'[c] = sent[c]]_vars
  BY <1>1
<1> QED
  BY <1>2, Invariant, PTL DEF Spec, RequestsHeld
=============================================================================
