------------------------------ MODULE Transfers ------------------------------
(***************************************************************************)
(* Model transfers onto one destination node: an internet download, or a   *)
(* pull from a source node that first has to authorize it.                 *)
(*                                                                         *)
(* Server: InitiateTransfer, CancelTransfer, HandleTransferProgress and    *)
(* HandlePeerAuthorizeResult, each split at its reads and writes of the    *)
(* model_transfers and node_model_inventory tables and at its dispatches.  *)
(* Destination agent: the read loop that registers and cancels runs, and   *)
(* the goroutine of each run. Source agent: its grants.                    *)
(*                                                                         *)
(* A run writes its reports to the connection that started it; the server  *)
(* may still be reading an old connection while a new one is in use. A     *)
(* retry is another transfer with the same parameters.                     *)
(***************************************************************************)
EXTENDS Naturals, Sequences, FiniteSets

CONSTANTS
    Transfers,      \* model_transfers ids a request may create
    Kinds,          \* the kinds of transfer a request may ask for
    Models,         \* inventory keys
    ModelOf,        \* the inventory key of each transfer
    MaxConns,       \* connections the destination agent ever makes
    MaxSourceDrops, \* drops of the source agent's connection
    MaxRestarts     \* restarts of the destination agent, and of the server

ASSUME TransferAssumption ==
    /\ Kinds \subseteq {"internet", "peer"}
    /\ ModelOf \in [Transfers -> Models]
    /\ MaxConns \in Nat \ {0}
    /\ MaxSourceDrops \in Nat
    /\ MaxRestarts \in Nat

Conns == 1..MaxConns

VARIABLES
    row,        \* model_transfers.status ("none": no row yet)
    inventory,  \* node_model_inventory.status on the destination
    kind,       \* model_transfers.source_type: "internet" or "peer"
    init,       \* the position of InitiateTransfer
    cancel,     \* the position of CancelTransfer
    prev,       \* the status CancelTransfer read
    hand,       \* HandleTransferProgress, per connection: its position and report
    auth,       \* HandlePeerAuthorizeResult: its position and transfer
    toDest,     \* commands on their way to the destination
    fromDest,   \* reports on their way, per connection
    conn, up,   \* the destination's newest connection, and whether it is up
    toSource,   \* commands on their way to the source
    fromSource, \* authorize results on their way, as <<transfer, accepted>>
    sourceUp,
    run,        \* the run of each transfer on the destination
    stop,       \* transferRun.cancelled
    via,        \* the connection that started the run
    disk,       \* what the destination has of each model
    shared,     \* history: models that two runs have written at once
    grant,      \* the source's grant of each transfer
    authorized, \* history: transfers the source has authorized
    fetched,    \* history: transfers whose run has fetched everything
    drops, restarts

rowVars == <<row, inventory>>
reqVars == <<init, cancel, prev, hand, auth>>
destNet == <<toDest, fromDest, conn, up>>
sourceNet == <<toSource, fromSource, sourceUp>>
runVars == <<run, stop, via, disk, shared, fetched>>
sourceVars == <<grant, authorized>>
vars == <<rowVars, reqVars, kind, destNet, sourceNet, runVars, sourceVars, drops, restarts>>

Terminal == {"completed", "failed", "cancelled"}
Statuses == {"none", "queued", "transferring"} \cup Terminal
Running == {"begin", "connect", "copy"}
Reports == [id : Transfers, status : {"transferring"} \cup Terminal, bytes : BOOLEAN]
Commands == {"start", "cancel"} \X Transfers
SourceCommands == {"authorize", "revoke"} \X Transfers
NoHandler == <<"idle">>

ServerTypes ==
    /\ row \in [Transfers -> Statuses]
    /\ inventory \in [Models -> {"none", "incomplete", "present"}]
    /\ kind \in [Transfers -> Kinds]
    /\ init \in [Transfers -> {"idle", "create", "send", "end"}]
    /\ cancel \in [Transfers -> {"idle", "set", "send", "get", "put", "end"}]
    /\ prev \in [Transfers -> Statuses]
    /\ hand \in [Conns -> {NoHandler} \cup ({"set", "get", "put"} \X Reports)]
    /\ auth \in {NoHandler} \cup ({"start", "fail"} \X Transfers)

NetTypes ==
    /\ toDest \in Seq(Commands)
    /\ fromDest \in [Conns -> Seq(Reports)]
    /\ conn \in Conns
    /\ up \in BOOLEAN
    /\ toSource \in Seq(SourceCommands)
    /\ fromSource \in Seq(Transfers \X BOOLEAN)
    /\ sourceUp \in BOOLEAN
    /\ drops \in 0..MaxSourceDrops
    /\ restarts \in [{"agent", "server"} -> 0..MaxRestarts]

AgentTypes ==
    /\ run \in [Transfers -> {"none", "done"} \cup Running]
    /\ stop \in [Transfers -> BOOLEAN]
    /\ via \in [Transfers -> 0..MaxConns]
    /\ disk \in [Models -> {"none", "partial", "whole", "damaged"}]
    /\ shared \subseteq Models
    /\ fetched \subseteq Transfers
    /\ grant \in [Transfers -> {"none", "live", "used"}]
    /\ authorized \subseteq Transfers

TypeOK == ServerTypes /\ NetTypes /\ AgentTypes

Init ==
    /\ row = [t \in Transfers |-> "none"]
    /\ inventory = [m \in Models |-> "none"]
    /\ kind \in [Transfers -> Kinds]
    /\ init = [t \in Transfers |-> "idle"]
    /\ cancel = [t \in Transfers |-> "idle"]
    /\ prev = [t \in Transfers |-> "none"]
    /\ hand = [k \in Conns |-> NoHandler]
    /\ auth = NoHandler
    /\ toDest = <<>>
    /\ fromDest = [k \in Conns |-> <<>>]
    /\ conn = 1
    /\ up = TRUE
    /\ toSource = <<>>
    /\ fromSource = <<>>
    /\ sourceUp = TRUE
    /\ run = [t \in Transfers |-> "none"]
    /\ stop = [t \in Transfers |-> FALSE]
    /\ via = [t \in Transfers |-> 0]
    /\ disk = [m \in Models |-> "none"]
    /\ shared = {}
    /\ fetched = {}
    /\ grant = [t \in Transfers |-> "none"]
    /\ authorized = {}
    /\ drops = 0
    /\ restarts = [p \in {"agent", "server"} |-> 0]

----------------------------------------------------------------------------
(* Helpers                                                                   *)

IsTerminal(s) == s \in Terminal

SetStatus(t, s) == row' = [row EXCEPT ![t] = s]

(* sendCancel, and the start of a run: on the destination's connection, if   *)
(* it has one.                                                               *)
SendDest(c, t) == toDest' = IF up THEN Append(toDest, <<c, t>>) ELSE toDest

(* revokePeer: only for a peer transfer, only while the source is connected. *)
RevokePeer(t) ==
    toSource' = IF kind[t] = "peer" /\ sourceUp THEN Append(toSource, <<"revoke", t>>) ELSE toSource

(* failPeer                                                                  *)
FailPeer(t) == SetStatus(t, "failed") /\ RevokePeer(t)

(* A run reports on the connection that started it.                          *)
Say(t, status, bytes) ==
    fromDest' = IF up /\ via[t] = conn
                THEN [fromDest EXCEPT ![conn] =
                        Append(@, [id |-> t, status |-> status, bytes |-> bytes])]
                ELSE fromDest

(* cancelAwareProgress: a failure of a cancelled run is a cancellation.      *)
FailureStatus(t) == IF stop[t] THEN "cancelled" ELSE "failed"

----------------------------------------------------------------------------
(* InitiateTransfer, initiatePeer                                            *)

InitCheck(t) ==
    /\ init[t] = "idle"
    /\ up
    /\ kind[t] = "peer" => sourceUp
    /\ init' = [init EXCEPT ![t] = "create"]
    /\ UNCHANGED <<kind, rowVars, cancel, prev, hand, auth, destNet, sourceNet, runVars, sourceVars, drops, restarts>>

InitCreate(t) ==
    /\ init[t] = "create"
    /\ SetStatus(t, "queued")
    /\ init' = [init EXCEPT ![t] = "send"]
    /\ UNCHANGED <<kind, inventory, cancel, prev, hand, auth, destNet, sourceNet, runVars, sourceVars, drops, restarts>>

InitSend(t) ==
    /\ init[t] = "send"
    /\ init' = [init EXCEPT ![t] = "end"]
    /\ \/ kind[t] = "internet" /\ up /\ SendDest("start", t) /\ UNCHANGED toSource
       \/ kind[t] = "peer" /\ sourceUp /\ toSource' = Append(toSource, <<"authorize", t>>) /\ UNCHANGED toDest
    /\ UNCHANGED <<kind, rowVars, cancel, prev, hand, auth, fromDest, conn, up, fromSource, sourceUp,
                   runVars, sourceVars, drops, restarts>>

(* The dispatch fails: a peer transfer fails, an internet one is left as is. *)
InitSendFails(t) ==
    /\ init[t] = "send"
    /\ init' = [init EXCEPT ![t] = "end"]
    /\ \/ kind[t] = "internet" /\ ~up /\ UNCHANGED <<row, toSource>>
       \/ kind[t] = "peer" /\ ~sourceUp /\ FailPeer(t)
    /\ UNCHANGED <<kind, inventory, cancel, prev, hand, auth, destNet, fromSource, sourceUp,
                   runVars, sourceVars, drops, restarts>>

(* CancelTransfer                                                            *)

CancelRead(t) ==
    /\ cancel[t] = "idle"
    /\ row[t] # "none"
    /\ ~IsTerminal(row[t])
    /\ prev' = [prev EXCEPT ![t] = row[t]]
    /\ cancel' = [cancel EXCEPT ![t] = "set"]
    /\ UNCHANGED <<kind, rowVars, init, hand, auth, destNet, sourceNet, runVars, sourceVars, drops, restarts>>

CancelSet(t) ==
    /\ cancel[t] = "set"
    /\ SetStatus(t, "cancelled")
    /\ cancel' = [cancel EXCEPT ![t] = "send"]
    /\ UNCHANGED <<kind, inventory, init, prev, hand, auth, destNet, sourceNet, runVars, sourceVars, drops, restarts>>

(* sendCancel and revokePeer; then recordIncomplete if it had started.       *)
CancelSend(t) ==
    /\ cancel[t] = "send"
    /\ SendDest("cancel", t)
    /\ RevokePeer(t)
    /\ cancel' = [cancel EXCEPT ![t] = IF prev[t] = "transferring" THEN "get" ELSE "end"]
    /\ UNCHANGED <<kind, rowVars, init, prev, hand, auth, fromDest, conn, up, fromSource, sourceUp,
                   runVars, sourceVars, drops, restarts>>

CancelGet(t) ==
    /\ cancel[t] = "get"
    /\ cancel' = [cancel EXCEPT ![t] = IF inventory[ModelOf[t]] = "present" THEN "end" ELSE "put"]
    /\ UNCHANGED <<kind, rowVars, init, prev, hand, auth, destNet, sourceNet, runVars, sourceVars, drops, restarts>>

CancelPut(t) ==
    /\ cancel[t] = "put"
    /\ inventory' = [inventory EXCEPT ![ModelOf[t]] = "incomplete"]
    /\ cancel' = [cancel EXCEPT ![t] = "end"]
    /\ UNCHANGED <<kind, row, init, prev, hand, auth, destNet, sourceNet, runVars, sourceVars, drops, restarts>>

(* HandleTransferProgress, on the read loop of connection k                  *)

(* Mutant: a cancelled transfer that still runs is not told again.           *)
ProgressReadNoResend(k) ==
    /\ hand[k] = NoHandler
    /\ fromDest[k] # <<>>
    /\ hand' = IF IsTerminal(row[Head(fromDest[k]).id]) THEN hand
               ELSE [hand EXCEPT ![k] = <<"set", Head(fromDest[k])>>]
    /\ fromDest' = [fromDest EXCEPT ![k] = Tail(@)]
    /\ UNCHANGED <<kind, rowVars, init, cancel, prev, auth, toDest, conn, up, sourceNet, runVars, sourceVars, drops, restarts>>

(* A report on a finished transfer is dropped; one that says a cancelled     *)
(* transfer is running gets the cancel again.                                *)
ProgressRead(k) ==
    /\ hand[k] = NoHandler
    /\ fromDest[k] # <<>>
    /\ LET m == Head(fromDest[k]) IN
        IF IsTerminal(row[m.id])
        THEN /\ IF row[m.id] = "cancelled" /\ m.status = "transferring"
                THEN SendDest("cancel", m.id) ELSE UNCHANGED toDest
             /\ UNCHANGED hand
        ELSE hand' = [hand EXCEPT ![k] = <<"set", m>>] /\ UNCHANGED toDest
    /\ fromDest' = [fromDest EXCEPT ![k] = Tail(@)]
    /\ UNCHANGED <<kind, rowVars, init, cancel, prev, auth, conn, up, sourceNet, runVars, sourceVars, drops, restarts>>

(* UpdateProgress, SetStatus and, at the end of a transfer, revokePeer.      *)
ProgressSet(k) ==
    /\ hand[k][1] = "set"
    /\ LET m == hand[k][2] IN
        /\ SetStatus(m.id, m.status)
        /\ IF IsTerminal(m.status) THEN RevokePeer(m.id) ELSE UNCHANGED toSource
        /\ hand' = [hand EXCEPT ![k] =
                      CASE m.status = "completed" -> <<"put", m>>
                        [] m.status = "failed" /\ m.bytes -> <<"get", m>>
                        [] OTHER -> NoHandler]
    /\ UNCHANGED <<kind, inventory, init, cancel, prev, auth, destNet, fromSource, sourceUp,
                   runVars, sourceVars, drops, restarts>>

(* recordIncomplete looks the entry up; a usable one is left alone.          *)
ProgressGet(k) ==
    /\ hand[k][1] = "get"
    /\ hand' = [hand EXCEPT ![k] = IF inventory[ModelOf[hand[k][2].id]] = "present"
                                   THEN NoHandler ELSE <<"put", hand[k][2]>>]
    /\ UNCHANGED <<kind, rowVars, init, cancel, prev, auth, destNet, sourceNet, runVars, sourceVars, drops, restarts>>

(* Mutant: whatever is on the disk is filed as present.                      *)
ProgressPutPresent(k) ==
    /\ hand[k][1] = "put"
    /\ inventory' = [inventory EXCEPT ![ModelOf[hand[k][2].id]] = "present"]
    /\ hand' = [hand EXCEPT ![k] = NoHandler]
    /\ UNCHANGED <<kind, row, init, cancel, prev, auth, destNet, sourceNet, runVars, sourceVars, drops, restarts>>

ProgressPut(k) ==
    /\ hand[k][1] = "put"
    /\ LET m == hand[k][2] IN
        inventory' = [inventory EXCEPT ![ModelOf[m.id]] =
                        IF m.status = "completed" THEN "present" ELSE "incomplete"]
    /\ hand' = [hand EXCEPT ![k] = NoHandler]
    /\ UNCHANGED <<kind, row, init, cancel, prev, auth, destNet, sourceNet, runVars, sourceVars, drops, restarts>>

(* HandlePeerAuthorizeResult, on the source's read loop                      *)

(* Mutant: the answer's Accepted flag is not looked at.                      *)
AuthReadAnyAnswer ==
    /\ auth = NoHandler
    /\ fromSource # <<>>
    /\ LET t == Head(fromSource)[1] IN
        IF row[t] # "queued" THEN UNCHANGED auth
        ELSE auth' \in {<<"fail", t>>} \cup (IF up THEN {<<"start", t>>} ELSE {})
    /\ fromSource' = Tail(fromSource)
    /\ UNCHANGED <<kind, rowVars, init, cancel, prev, hand, destNet, toSource, sourceUp, runVars, sourceVars, drops, restarts>>

(* Honoured only for a queued transfer. A refusal, a plan that no longer     *)
(* works out, or a destination that has gone, fails the transfer.            *)
AuthRead ==
    /\ auth = NoHandler
    /\ fromSource # <<>>
    /\ LET t == Head(fromSource)[1]
           accepted == Head(fromSource)[2] IN
        IF row[t] # "queued" THEN UNCHANGED auth
        ELSE auth' \in {<<"fail", t>>} \cup (IF accepted /\ up THEN {<<"start", t>>} ELSE {})
    /\ fromSource' = Tail(fromSource)
    /\ UNCHANGED <<kind, rowVars, init, cancel, prev, hand, destNet, toSource, sourceUp, runVars, sourceVars, drops, restarts>>

AuthStart ==
    /\ auth[1] = "start"
    /\ up
    /\ SendDest("start", auth[2])
    /\ auth' = NoHandler
    /\ UNCHANGED <<kind, rowVars, init, cancel, prev, hand, fromDest, conn, up, sourceNet, runVars, sourceVars, drops, restarts>>

AuthFail ==
    /\ auth[1] = "fail" \/ (auth[1] = "start" /\ ~up)
    /\ FailPeer(auth[2])
    /\ auth' = NoHandler
    /\ UNCHANGED <<kind, inventory, init, cancel, prev, hand, destNet, fromSource, sourceUp,
                   runVars, sourceVars, drops, restarts>>

----------------------------------------------------------------------------
(* The destination agent                                                     *)

(* dispatch: a run is registered, or cancelled, on the read loop, so in the  *)
(* order in which the commands were sent.                                    *)
ReceiveStart ==
    /\ up
    /\ toDest # <<>>
    /\ Head(toDest)[1] = "start"
    /\ LET t == Head(toDest)[2] IN
        /\ run' = [run EXCEPT ![t] = "begin"]
        /\ stop' = [stop EXCEPT ![t] = FALSE]
        /\ via' = [via EXCEPT ![t] = conn]
    /\ toDest' = Tail(toDest)
    /\ UNCHANGED <<kind, rowVars, reqVars, fromDest, conn, up, sourceNet, disk, shared, fetched, sourceVars, drops, restarts>>

ReceiveCancel ==
    /\ up
    /\ toDest # <<>>
    /\ Head(toDest)[1] = "cancel"
    /\ LET t == Head(toDest)[2] IN stop' = [stop EXCEPT ![t] = @ \/ run[t] \in Running]
    /\ toDest' = Tail(toDest)
    /\ UNCHANGED <<kind, rowVars, reqVars, fromDest, conn, up, sourceNet, run, via, disk, shared, fetched, sourceVars, drops, restarts>>

(* The run starts to write: nothing stops another run from writing the same  *)
(* files.                                                                    *)
StartWriting(t) ==
    LET others == {u \in Transfers \ {t} : ModelOf[u] = ModelOf[t] /\ run[u] = "copy"}
    IN  shared' = IF others = {} THEN shared ELSE shared \cup {ModelOf[t]}

(* Download and Pull: transferring is reported before anything is fetched.   *)
RunBegin(t) ==
    /\ run[t] = "begin"
    /\ run' = [run EXCEPT ![t] = IF kind[t] = "peer" THEN "connect" ELSE "copy"]
    /\ IF kind[t] = "internet" THEN StartWriting(t) ELSE UNCHANGED shared
    /\ Say(t, "transferring", FALSE)
    /\ UNCHANGED <<kind, rowVars, reqVars, toDest, conn, up, sourceNet, stop, via, disk, fetched, sourceVars, drops, restarts>>

(* PrepareServe: the source serves a live grant once.                        *)
RunConnect(t) ==
    /\ run[t] = "connect"
    /\ grant[t] = "live"
    /\ grant' = [grant EXCEPT ![t] = "used"]
    /\ run' = [run EXCEPT ![t] = "copy"]
    /\ StartWriting(t)
    /\ UNCHANGED <<kind, rowVars, reqVars, destNet, sourceNet, stop, via, disk, fetched, authorized, drops, restarts>>

RunWrite(t) ==
    /\ run[t] = "copy"
    /\ disk[ModelOf[t]] = "none"
    /\ disk' = [disk EXCEPT ![ModelOf[t]] = "partial"]
    /\ UNCHANGED <<kind, rowVars, reqVars, destNet, sourceNet, run, stop, via, shared, fetched, sourceVars, drops, restarts>>

(* Everything is there, intact unless another run wrote the same files at    *)
(* the same time; a cancel that arrives by now comes too late.               *)
RunFinish(t) ==
    /\ run[t] = "copy"
    /\ run' = [run EXCEPT ![t] = "done"]
    /\ \E d \in IF ModelOf[t] \in shared THEN {"whole", "damaged"} ELSE {"whole"} :
           disk' = [disk EXCEPT ![ModelOf[t]] = d]
    /\ fetched' = fetched \cup {t}
    /\ Say(t, "completed", TRUE)
    /\ UNCHANGED <<kind, rowVars, reqVars, toDest, conn, up, sourceNet, stop, via, shared, sourceVars, drops, restarts>>

(* Mutant: an error in the middle of the copy ends the run as completed.     *)
RunFailsCompleted(t) ==
    /\ run[t] \in Running
    /\ run' = [run EXCEPT ![t] = "done"]
    /\ Say(t, IF run[t] = "copy" THEN "completed" ELSE FailureStatus(t), FALSE)
    /\ UNCHANGED <<kind, rowVars, reqVars, toDest, conn, up, sourceNet, stop, via, disk, shared, fetched, sourceVars, drops, restarts>>

(* Mutant: a run that fails before it has copied anything says nothing.      *)
RunFailsSilently(t) ==
    /\ run[t] \in Running
    /\ run' = [run EXCEPT ![t] = "done"]
    /\ IF run[t] = "copy" THEN Say(t, FailureStatus(t), TRUE) ELSE UNCHANGED fromDest
    /\ UNCHANGED <<kind, rowVars, reqVars, toDest, conn, up, sourceNet, stop, via, disk, shared, fetched, sourceVars, drops, restarts>>

(* A run fails or is cancelled. Download says how much it has, which is      *)
(* nothing when the request for the file itself fails; Pull says 0.          *)
RunFails(t) ==
    /\ run[t] \in Running
    /\ run' = [run EXCEPT ![t] = "done"]
    /\ \E some \in BOOLEAN :
          /\ some => kind[t] = "internet" /\ run[t] = "copy" /\ disk[ModelOf[t]] # "none"
          /\ Say(t, FailureStatus(t), some)
    /\ UNCHANGED <<kind, rowVars, reqVars, toDest, conn, up, sourceNet, stop, via, disk, shared, fetched, sourceVars, drops, restarts>>

(* The source agent: handleAuthorizePeerPull and revoke, on its read loop.   *)

Authorize ==
    /\ sourceUp
    /\ toSource # <<>>
    /\ Head(toSource)[1] = "authorize"
    /\ LET t == Head(toSource)[2] IN
        \/ /\ grant[t] = "none"
           /\ grant' = [grant EXCEPT ![t] = "live"]
           /\ authorized' = authorized \cup {t}
           /\ fromSource' = Append(fromSource, <<t, TRUE>>)
        \/ /\ UNCHANGED sourceVars
           /\ fromSource' = Append(fromSource, <<t, FALSE>>)
    /\ toSource' = Tail(toSource)
    /\ UNCHANGED <<kind, rowVars, reqVars, destNet, sourceUp, runVars, drops, restarts>>

Revoke ==
    /\ sourceUp
    /\ toSource # <<>>
    /\ Head(toSource)[1] = "revoke"
    /\ grant' = [grant EXCEPT ![Head(toSource)[2]] = "none"]
    /\ toSource' = Tail(toSource)
    /\ UNCHANGED <<kind, rowVars, reqVars, destNet, fromSource, sourceUp, runVars, authorized, drops, restarts>>

(* The grant's TTL has passed.                                               *)
GrantExpires(t) ==
    /\ grant[t] # "none"
    /\ grant' = [grant EXCEPT ![t] = "none"]
    /\ UNCHANGED <<kind, rowVars, reqVars, destNet, sourceNet, runVars, authorized, drops, restarts>>

----------------------------------------------------------------------------
(* The environment                                                           *)

Drop ==
    /\ up
    /\ conn < MaxConns
    /\ up' = FALSE
    /\ toDest' = <<>>
    /\ UNCHANGED <<kind, rowVars, reqVars, fromDest, conn, sourceNet, runVars, sourceVars, drops, restarts>>

Reconnect ==
    /\ ~up
    /\ conn < MaxConns
    /\ up' = TRUE
    /\ conn' = conn + 1
    /\ UNCHANGED <<kind, rowVars, reqVars, toDest, fromDest, sourceNet, runVars, sourceVars, drops, restarts>>

(* What the server had not read from a dropped connection is lost.           *)
LoseReports(k) ==
    /\ k < conn \/ ~up
    /\ fromDest[k] # <<>>
    /\ fromDest' = [fromDest EXCEPT ![k] = <<>>]
    /\ UNCHANGED <<kind, rowVars, reqVars, toDest, conn, up, sourceNet, runVars, sourceVars, drops, restarts>>

SourceDrop ==
    /\ sourceUp
    /\ drops < MaxSourceDrops
    /\ drops' = drops + 1
    /\ sourceUp' = FALSE
    /\ toSource' = <<>>
    /\ fromSource' = <<>>
    /\ UNCHANGED <<kind, rowVars, reqVars, destNet, runVars, sourceVars, restarts>>

SourceReconnect ==
    /\ ~sourceUp
    /\ sourceUp' = TRUE
    /\ UNCHANGED <<kind, rowVars, reqVars, destNet, toSource, fromSource, runVars, sourceVars, drops, restarts>>

(* The destination agent dies with its runs; what they fetched stays.        *)
AgentRestart ==
    /\ restarts["agent"] < MaxRestarts
    /\ conn < MaxConns
    /\ restarts' = [restarts EXCEPT !["agent"] = @ + 1]
    /\ up' = FALSE
    /\ toDest' = <<>>
    /\ run' = [t \in Transfers |-> IF run[t] \in Running THEN "done" ELSE run[t]]
    /\ UNCHANGED <<kind, rowVars, reqVars, fromDest, conn, sourceNet, stop, via, disk, shared, fetched, sourceVars, drops>>

(* The server dies with its requests and handlers, and so every connection.  *)
ServerRestart ==
    /\ restarts["server"] < MaxRestarts
    /\ conn < MaxConns
    /\ restarts' = [restarts EXCEPT !["server"] = @ + 1]
    /\ init' = [t \in Transfers |-> IF init[t] = "idle" THEN "idle" ELSE "end"]
    /\ cancel' = [t \in Transfers |-> IF cancel[t] = "idle" THEN "idle" ELSE "end"]
    /\ hand' = [k \in Conns |-> NoHandler]
    /\ auth' = NoHandler
    /\ up' = FALSE
    /\ toDest' = <<>>
    /\ fromDest' = [k \in Conns |-> <<>>]
    /\ sourceUp' = FALSE
    /\ toSource' = <<>>
    /\ fromSource' = <<>>
    /\ UNCHANGED <<kind, rowVars, prev, conn, runVars, sourceVars, drops>>

(* What a request, a handler or an agent goroutine does by itself.           *)
Initiate(t) == InitCreate(t) \/ InitSend(t) \/ InitSendFails(t)
Cancel(t) == CancelSet(t) \/ CancelSend(t) \/ CancelGet(t) \/ CancelPut(t)
Progress(k) == ProgressRead(k) \/ ProgressSet(k) \/ ProgressGet(k) \/ ProgressPut(k)
AuthResult == AuthRead \/ AuthStart \/ AuthFail
DestLoop == ReceiveStart \/ ReceiveCancel
SourceLoop == Authorize \/ Revoke
Run(t) == RunBegin(t) \/ RunConnect(t) \/ RunWrite(t) \/ RunFinish(t) \/ RunFails(t)

Next ==
    \/ \E t \in Transfers : \/ InitCheck(t) \/ Initiate(t)
                            \/ CancelRead(t) \/ Cancel(t)
                            \/ Run(t) \/ GrantExpires(t)
    \/ \E k \in Conns : Progress(k) \/ LoseReports(k)
    \/ AuthResult \/ DestLoop \/ SourceLoop
    \/ Drop \/ Reconnect \/ SourceDrop \/ SourceReconnect \/ AgentRestart \/ ServerRestart

(* Goroutines that can run do run. How long a download or an rsync takes is  *)
(* open, so only a run whose context is cancelled is sure to end. Nothing    *)
(* obliges a user, or the network.                                           *)
Fairness ==
    /\ \A t \in Transfers : /\ WF_vars(Initiate(t)) /\ WF_vars(Cancel(t))
                            /\ WF_vars(RunBegin(t)) /\ WF_vars(stop[t] /\ RunFails(t))
    /\ \A k \in Conns : WF_vars(Progress(k))
    /\ WF_vars(AuthResult) /\ WF_vars(DestLoop) /\ WF_vars(SourceLoop)

Spec == Init /\ [][Next]_vars /\ Fairness

----------------------------------------------------------------------------
(* PROPERTIES                                                                *)

(* HandlePeerAuthorizeResult: the destination is told to pull only after the *)
(* source has authorized that transfer.                                      *)
PullIsAuthorized ==
    \A t \in Transfers : kind[t] = "peer" /\ run[t] # "none" => t \in authorized

(* HandleTransferProgress: a row is completed only by a run of that transfer *)
(* that fetched everything, whatever reports were lost or late.              *)
CompletedWasFetched == \A t \in Transfers : row[t] = "completed" => t \in fetched

(* HandleTransferProgress and recordIncomplete: the inventory shows a model  *)
(* as present only when the node has all of it, whatever was cancelled,      *)
(* failed or retried before (unless two runs wrote its files at once).       *)
PresentIsWhole == \A m \in Models \ shared : inventory[m] = "present" => disk[m] = "whole"

(* No connection has dropped so far.                                         *)
Undisturbed == conn = 1 /\ up /\ sourceUp /\ drops = 0

(* With the connections up, a transfer that nothing is working on any more   *)
(* does not stay unfinished: no race of reports, cancels and authorizations  *)
(* leaves its row queued or transferring.                                    *)
TransferEnds ==
    \A t \in Transfers :
        (row[t] \in {"queued", "transferring"} /\ run[t] \notin Running) ~>
            (IsTerminal(row[t]) \/ run[t] \in Running \/ ~Undisturbed)

(* CancelTransfer: with the connections up, the run of a cancelled transfer  *)
(* stops however long the download would have taken, also when the cancel    *)
(* overtook the start and found nothing to stop.                             *)
CancelStopsRun ==
    \A t \in Transfers :
        (cancel[t] \in {"send", "get", "put", "end"} /\ run[t] \in Running) ~>
            (run[t] \notin Running \/ ~Undisturbed)

----------------------------------------------------------------------------
(* CLAIMS OF THE SOURCE THAT THE CODE DOES NOT KEEP                          *)

(* HandleTransferProgress: a finished transfer's row is never touched again. *)
FinishedIsFinal ==
    [][\A t \in Transfers : IsTerminal(row[t]) => row'[t] = row[t]]_vars

(* recordIncomplete: an existing usable entry is never downgraded.           *)
UsableIsKept ==
    [][\A m \in Models : inventory[m] = "present" => inventory'[m] = "present"]_vars

(* downloadFile: nothing else writes to the destination directory.           *)
NothingElseWrites ==
    \A t, u \in Transfers :
        run[t] = "copy" /\ run[u] = "copy" /\ ModelOf[t] = ModelOf[u] => t = u

(* InitiateTransfer: an unreachable node never leaves behind a queued        *)
(* transfer nothing will ever pick up.                                       *)
QueuedIsPickedUp ==
    \A t \in Transfers :
        kind[t] = "internet" /\ row[t] = "queued" /\ init[t] = "end" =>
            \/ \E n \in DOMAIN toDest : toDest[n] = <<"start", t>>
            \/ run[t] # "none"

(* Nothing about the transfer is on its way.                                 *)
Quiet(t) ==
    /\ init[t] = "end"
    /\ cancel[t] \in {"idle", "end"}
    /\ \A k \in Conns : hand[k] = NoHandler /\ fromDest[k] = <<>>
    /\ auth = NoHandler /\ toDest = <<>> /\ toSource = <<>> /\ fromSource = <<>>
    /\ run[t] \notin Running

(* recordIncomplete: partial data of a failed transfer shows up in the       *)
(* inventory (as long as no connection dropped on the way).                  *)
PartialIsFiled ==
    \A t \in Transfers :
        row[t] = "failed" /\ Quiet(t) /\ conn = 1 /\ up /\ disk[ModelOf[t]] = "partial" =>
            inventory[ModelOf[t]] # "none"

(* CancelTransfer: the source is told to drop its authorization (as long as  *)
(* its connection did not drop on the way).                                  *)
CancelledIsRevoked ==
    \A t \in Transfers :
        row[t] = "cancelled" /\ Quiet(t) /\ drops = 0 /\ sourceUp => grant[t] = "none"
=============================================================================
