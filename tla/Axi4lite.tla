------------------------------ MODULE Axi4lite ------------------------------
(***************************************************************************)
(* The AXI4-Lite agent of the CAN FD bench: the driver                     *)
(* (canfd/uvc/axi4lite/axi4lite_driver.sv), which turns sequence items     *)
(* into handshakes, and the monitor (axi4lite_monitor.sv), which turns the *)
(* handshakes it sees back into transactions for the scoreboard.  The      *)
(* slave they talk to, the device under test, is external.                 *)
(*                                                                         *)
(* A step is a clock edge: driver, monitor and slave see the signals as    *)
(* they were before the edge and all their non-blocking assignments take   *)
(* effect after it.  On channel c the driver's own signal is offer[c]      *)
(* (VALID of AW, W and AR, READY of B and R) and the slave's is answer[c]; *)
(* a transfer takes place at an edge where both are up.                    *)
(***************************************************************************)
EXTENDS Naturals, Sequences

CONSTANTS
    Addrs, Words, Resps,    \* values of the payloads
    Items,                  \* what a sequence may send: [dir, addr, data]
    NItems,                 \* number of items of a test
    Policies                \* when a slave raises READY, see MayAccept

Requests  == {"AW", "W", "AR"}
Responses == {"B", "R"}
Channels  == Requests \cup Responses

ASSUME Axi4liteAssumption ==
    /\ Items \subseteq [dir : {"WRITE", "READ"}, addr : Addrs, data : Words]
    /\ NItems \in Nat /\ Policies \subseteq {"after_valid", "joint", "any_time"}
    /\ Addrs # {} /\ Words # {} /\ Resps # {}

VARIABLES
    todo,           \* the items not completed; the head is the current one
    pc,             \* where the driver waits: a channel, "last" or "idle"
    offer, sent,    \* the driver's signals and payloads
    done,           \* the items with what the driver filled in
    answer, reply,  \* the slave's signals and payloads
    taken, store,   \* requests the slave has taken and not answered
    policy,         \* which slave it is
    served,         \* what the slave has done
    seen, latch,    \* aw_done, w_done, ar_done; aw_addr_q, w_data_q, ar_addr_q
    published       \* what the monitor has published

driver  == <<todo, pc, offer, sent, done>>
slave   == <<answer, reply, taken, store, policy, served>>
monitor == <<seen, latch, published>>
vars    == <<driver, slave, monitor>>

Handshake(c) == offer[c] /\ answer[c]

AnyWord == CHOOSE w \in Words : TRUE
AnyAddr == CHOOSE a \in Addrs : TRUE
NoSignal == [c \in Channels |-> FALSE]
NoRequest == [AW |-> AnyAddr, W |-> AnyWord, AR |-> AnyAddr]
NoReply == [resp |-> CHOOSE r \in Resps : TRUE, data |-> AnyWord]

Init ==
    /\ todo \in [1 .. NItems -> Items] /\ pc = "idle"
    /\ offer = NoSignal /\ answer = NoSignal
    /\ sent = NoRequest /\ latch = NoRequest /\ store = NoRequest
    /\ policy \in Policies
    /\ reply = [c \in Responses |-> NoReply]
    /\ taken = {} /\ seen = {}
    /\ published = <<>> /\ done = <<>> /\ served = <<>>

-----------------------------------------------------------------------------
(* The driver                                                              *)

\* The channels do_write and do_read go through, one after the other.
Path(item) == IF item.dir = "WRITE" THEN <<"AW", "W", "B">> ELSE <<"AR", "R">>

Payload(item) == [AW |-> item.addr, W |-> item.data, AR |-> item.addr]

\* mutant: VALID is not taken back, or READY is never raised
ProceedKeepsValid(item, k, up) ==
    /\ pc' = Path(item)[k]
    /\ offer' = [offer EXCEPT ![Path(item)[k]] = TRUE]
    /\ sent' = [c \in Requests |-> IF c = Path(item)[k] THEN Payload(item)[c] ELSE sent[c]]

ProceedWithoutReady(item, k, up) ==
    /\ pc' = Path(item)[k]
    /\ offer' = [c \in Channels |-> c = Path(item)[k] /\ c \in Requests]
    /\ sent' = [c \in Requests |-> IF c = Path(item)[k] THEN Payload(item)[c] ELSE sent[c]]

\* The driver starts on the k-th channel while the slave's signals are `up`.
\* A request channel whose READY is up already is left at once: VALID is set
\* and cleared in the same time step, the loop has not waited for an edge.  No
\* response is up before its requests are through.
Proceed(item, k, up) ==
    LET path == Path(item)
        stop == CHOOSE j \in k .. Len(path) :
                   /\ j = Len(path) \/ ~up[path[j]]
                   /\ \A i \in k .. j - 1 : up[path[i]]
        driven == {path[i] : i \in k .. stop}
    IN  /\ pc' = path[stop]
        /\ offer' = [c \in Channels |-> c = path[stop]]
        /\ sent' = [c \in Requests |-> IF c \in driven THEN Payload(item)[c] ELSE sent[c]]

\* The item do_read and do_write fill in: the data and the response.
Filled(item, rep) ==
    [dir |-> item.dir, addr |-> item.addr, resp |-> rep.resp,
     data |-> IF item.dir = "READ" THEN rep.data ELSE item.data]

\* The driver's loop when it gets an item; by then the assignments of this
\* edge have taken effect, so it sees what the slave has just raised.
NextItem(items) ==
    \/ /\ pc' = "idle" /\ todo' = items
       /\ offer' = NoSignal /\ UNCHANGED sent
    \/ /\ items # <<>> /\ todo' = items
       /\ Proceed(Head(items), 1, answer')

\* mutant: VALID is up for one edge only
WaitPulses ==
    /\ pc \in Channels /\ ~answer[pc]
    /\ offer' = NoSignal
    /\ UNCHANGED <<todo, pc, sent, done>>

\* At an edge the driver waits on, goes on to the next channel, takes the
\* response, or ends the transaction with item_done.
Wait ==
    /\ pc \in Channels /\ ~answer[pc]
    /\ UNCHANGED driver

Advance ==
    /\ pc \in Requests /\ answer[pc]
    /\ \E k \in DOMAIN Path(Head(todo)) :
          /\ Path(Head(todo))[k] = pc
          /\ Proceed(Head(todo), k + 1, answer)
    /\ UNCHANGED <<todo, done>>

Capture ==
    /\ pc \in Responses /\ answer[pc]
    /\ pc' = "last"
    /\ done' = Append(done, Filled(Head(todo), reply[pc]))
    /\ UNCHANGED <<todo, offer, sent>>

Drive ==
    \/ Wait
    \/ Advance
    \/ Capture
    \/ pc = "last" /\ NextItem(Tail(todo)) /\ UNCHANGED done
    \/ pc = "idle" /\ NextItem(todo) /\ UNCHANGED done

-----------------------------------------------------------------------------
(* The monitor                                                             *)

\* mutant: the read is published with the address of the last write
CompletedWithWriteAddr(flags, q) ==
    (IF {"AW", "W"} \subseteq flags /\ Handshake("B")
     THEN <<[dir |-> "WRITE", addr |-> q["AW"], resp |-> reply["B"].resp, data |-> q["W"]]>>
     ELSE <<>>)
    \o
    (IF "AR" \in flags /\ Handshake("R")
     THEN <<[dir |-> "READ", addr |-> q["AW"], resp |-> reply["R"].resp,
             data |-> reply["R"].data]>>
     ELSE <<>>)

\* The transactions an edge completes: at most a write and a read.
Completed(flags, q) ==
    (IF {"AW", "W"} \subseteq flags /\ Handshake("B")
     THEN <<[dir |-> "WRITE", addr |-> q["AW"], resp |-> reply["B"].resp, data |-> q["W"]]>>
     ELSE <<>>)
    \o
    (IF "AR" \in flags /\ Handshake("R")
     THEN <<[dir |-> "READ", addr |-> q["AR"], resp |-> reply["R"].resp,
             data |-> reply["R"].data]>>
     ELSE <<>>)

\* Requests that are no longer open once their response was transferred.
Closed(flags) ==
    (IF {"AW", "W"} \subseteq flags /\ Handshake("B") THEN {"AW", "W"} ELSE {})
    \cup (IF "AR" \in flags /\ Handshake("R") THEN {"AR"} ELSE {})

Monitor ==
    LET flags == seen \cup {c \in Requests : Handshake(c)}
    IN  /\ latch' = [c \in Requests |-> IF Handshake(c) THEN sent[c] ELSE latch[c]]
        /\ published' = published \o Completed(flags, latch')
        /\ seen' = flags \ Closed(flags)

-----------------------------------------------------------------------------
(* The slave: any that keeps to the protocol and to its policy.            *)

\* READY after VALID, on each channel for itself; READY of both write channels
\* only when both are valid; or READY whenever the slave likes.
MayAccept(c) ==
    CASE policy = "after_valid" -> offer[c] /\ ~answer[c]
      [] policy = "joint" -> /\ offer[c] /\ ~answer[c]
                             /\ c # "AR" => offer["AW"] /\ offer["W"]
      [] policy = "any_time" -> TRUE

Needs(c) == IF c = "B" THEN {"AW", "W"} ELSE {"AR"}

Serve ==
    LET now  == taken \cup {c \in Requests : Handshake(c)}
        left == now \ UNION {Needs(c) : c \in {d \in Responses : Handshake(d)}}
    IN  /\ taken' = left
        /\ store' = [c \in Requests |-> IF Handshake(c) THEN sent[c] ELSE store[c]]
        /\ \E up \in SUBSET Channels :
              /\ \A c \in Requests \cap up : c \notin left /\ MayAccept(c)
              /\ \A c \in Responses \cap up : Needs(c) \subseteq left
              /\ \A c \in Responses : answer[c] /\ ~Handshake(c) => c \in up
              /\ answer' = [c \in Channels |-> c \in up]
        /\ \/ /\ \A c \in Responses : answer'[c] => answer[c]
              /\ UNCHANGED <<reply, served>>
           \/ \E c \in Responses, r \in Resps, w \in Words :
                 /\ answer'[c] /\ ~answer[c]
                 /\ c = "B" => w = AnyWord
                 /\ reply' = [reply EXCEPT ![c] = [resp |-> r, data |-> w]]
                 /\ served' = Append(served,
                       [dir |-> IF c = "B" THEN "WRITE" ELSE "READ",
                        addr |-> IF c = "B" THEN store'["AW"] ELSE store'["AR"],
                        resp |-> r,
                        data |-> IF c = "B" THEN store'["W"] ELSE w])
        /\ UNCHANGED policy

-----------------------------------------------------------------------------
\* The slave's signals of this edge are fixed first: NextItem looks at them.
Next == Serve /\ Drive /\ Monitor

\* The clock runs; a slave that may raise READY or owes a response does so in
\* the end; a sequence with items left sends the next one in the end.
Fairness ==
    /\ WF_vars(Next)
    /\ \A c \in Channels : WF_vars(Next /\ answer'[c])
    /\ WF_vars(Next /\ pc = "idle" /\ pc' # "idle")

Spec == Init /\ [][Next]_vars /\ Fairness

-----------------------------------------------------------------------------
(* Properties                                                              *)

\* Types; and the driver's signal is up on the channel it waits at and on no
\* other: it opens a channel only when it has closed the one before.
TypeOK ==
    /\ offer \in [Channels -> BOOLEAN]
    /\ pc \in Channels => offer[pc]
    /\ \A c, d \in Channels : offer[c] /\ offer[d] => c = d
    /\ todo \in Seq(Items) /\ pc \in Channels \cup {"last", "idle"}
    /\ answer \in [Channels -> BOOLEAN]
    /\ taken \subseteq Requests /\ seen \subseteq Requests
    /\ policy \in Policies

\* What the scoreboard is told is what the sequences are told, transaction by
\* transaction, and is what the slave did, up to the one it is answering:
\* nothing is invented, lost, repeated, reordered or paired with the address or
\* the data of another transaction.
MonitorFaithful ==
    /\ published = done
    /\ published = SubSeq(served, 1, Len(published))
    /\ Len(served) - Len(published) \in {0, 1}

\* A request the driver has put on the bus stays there, unchanged, until the
\* slave takes it.
RequestsHeld ==
    [][\A c \in Requests : offer[c] /\ ~answer[c] => offer'[c] /\ sent'[c] = sent[c]]_vars

\* The driver waits for a slave that will not move: one that takes an address
\* only together with the data the driver still holds back, or one whose READY
\* was up before VALID, so that VALID was cleared before an edge saw it and the
\* response waited for is to a request that never was.
Hung ==
    \/ policy = "joint" /\ pc = "AW"
    \/ policy = "any_time" /\ pc \in Responses /\ ~(Needs(pc) \subseteq taken)

\* Every item completes, and with a slave that waits for VALID on each channel
\* nothing can prevent it; driver and slave come to wait for each other for
\* ever in the two ways of Hung and in no other.
ItemsComplete ==
    \/ <>(todo = <<>> /\ pc = "idle")
    \/ policy # "after_valid" /\ <>[]Hung
=============================================================================
