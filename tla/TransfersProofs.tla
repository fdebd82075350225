--------------------------- MODULE TransfersProofs ---------------------------
(***************************************************************************)
(* Proofs about Transfers, for any number of transfers, models,            *)
(* connections, drops and restarts.                                        *)
(***************************************************************************)
EXTENDS Transfers, SequenceFacts

(* What an authorization is worth anywhere between the source and the run.   *)
AuthorizationsTrue ==
    /\ \A x \in Range(fromSource) : x[2] => x[1] \in authorized
    /\ auth # NoHandler /\ auth[1] = "start" => auth[2] \in authorized
    /\ \A x \in Range(toDest) : x[1] = "start" /\ kind[x[2]] = "peer" => x[2] \in authorized

(* A report of a completed run, unread or being handled, is about a run that *)
(* fetched everything.                                                       *)
ReportsTrue ==
    \A k \in Conns :
        /\ \A m \in Range(fromDest[k]) : m.status = "completed" => m.id \in fetched
        /\ hand[k] # NoHandler /\ hand[k][2].status = "completed" => hand[k][2].id \in fetched

(* What a run fetched stays whole, unless two runs wrote it at once, and     *)
(* only what a run fetched is ever shown as present.                         *)
FetchedIsWhole ==
    \A t \in fetched : ModelOf[t] \in shared \/ disk[ModelOf[t]] = "whole"
PresentWasFetched ==
    \A m \in Models : inventory[m] = "present" => \E t \in fetched : ModelOf[t] = m

(* The inductive invariant.                                                  *)
IInv ==
    /\ TypeOK
    /\ AuthorizationsTrue
    /\ PullIsAuthorized
    /\ ReportsTrue
    /\ CompletedWasFetched
    /\ FetchedIsWhole
    /\ PresentWasFetched

(* Nothing is authorized, fetched or reported at the start.                  *)
LEMMA InitIInv == Init => IInv
<1> SUFFICES ASSUME Init PROVE IInv
  OBVIOUS
<1> USE TransferAssumption DEF Init
<1>1. TypeOK
  BY DEF TypeOK, ServerTypes, NetTypes, AgentTypes, Statuses, Terminal, Running, Conns, NoHandler
<1>2. AuthorizationsTrue /\ PullIsAuthorized
  BY EmptyRange DEF AuthorizationsTrue, PullIsAuthorized, NoHandler
<1>3. ReportsTrue /\ CompletedWasFetched /\ FetchedIsWhole /\ PresentWasFetched
  BY EmptyRange DEF ReportsTrue, CompletedWasFetched, FetchedIsWhole, PresentWasFetched, NoHandler
<1>4. QED
  BY <1>1, <1>2, <1>3 DEF IInv

(* SendDest puts at most one command on its way to the destination.          *)
LEMMA SendDestAdds ==
    ASSUME NetTypes, NEW c \in {"start", "cancel"}, NEW t \in Transfers, SendDest(c, t)
    PROVE toDest' \in Seq(Commands) /\ Range(toDest') \subseteq Range(toDest) \cup {<<c, t>>}
<1>1. <<c, t>> \in Commands
  BY DEF Commands
<1>2. toDest \in Seq(Commands)
  BY DEF NetTypes
<1>3. /\ Append(toDest, <<c, t>>) \in Seq(Commands)
      /\ Range(Append(toDest, <<c, t>>)) = Range(toDest) \cup {<<c, t>>}
  BY <1>1, <1>2, AppendRange
<1>4. QED
  BY <1>2, <1>3 DEF SendDest

(* RevokePeer keeps the commands to the source well formed.                  *)
LEMMA RevokePeerType ==
    ASSUME NetTypes, NEW t \in Transfers, RevokePeer(t)
    PROVE toSource' \in Seq(SourceCommands)
<1>1. <<"revoke", t>> \in SourceCommands
  BY DEF SourceCommands
<1>2. toSource \in Seq(SourceCommands)
  BY DEF NetTypes
<1>3. Append(toSource, <<"revoke", t>>) \in Seq(SourceCommands)
  BY <1>1, <1>2, AppendRange
<1>4. QED
  BY <1>2, <1>3 DEF RevokePeer

(* Say adds at most one report, of that transfer and status.                 *)
LEMMA SayAdds ==
    ASSUME NetTypes, NEW t \in Transfers, NEW st \in {"transferring"} \cup Terminal, NEW b \in BOOLEAN,
           Say(t, st, b)
    PROVE /\ fromDest' \in [Conns -> Seq(Reports)]
          /\ \A k \in Conns : \A m \in Range(fromDest'[k]) :
                m \in Range(fromDest[k]) \/ (m.id = t /\ m.status = st)
<1> DEFINE r == [id |-> t, status |-> st, bytes |-> b]
<1>1. r \in Reports /\ r.id = t /\ r.status = st
  BY DEF Reports
<1>2. conn \in Conns /\ fromDest \in [Conns -> Seq(Reports)]
  BY DEF NetTypes
<1>3. fromDest' = fromDest \/ fromDest' = [fromDest EXCEPT ![conn] = Append(fromDest[conn], r)]
  BY <1>2 DEF Say
<1> HIDE DEF r
<1> DEFINE q == Append(fromDest[conn], r)
<1>4. q \in Seq(Reports) /\ Range(q) = Range(fromDest[conn]) \cup {r}
  BY <1>1, <1>2, AppendRange
<1> HIDE DEF q
<1>5. fromDest' = fromDest \/ fromDest' = [fromDest EXCEPT ![conn] = q]
  BY <1>3 DEF q
<1>6. fromDest' \in [Conns -> Seq(Reports)]
  BY <1>2, <1>4, <1>5
<1>7. ASSUME NEW k \in Conns, NEW m \in Range(fromDest'[k])
      PROVE m \in Range(fromDest[k]) \/ (m.id = t /\ m.status = st)
  <2>1. fromDest'[k] = fromDest[k] \/ (k = conn /\ fromDest'[k] = q)
    BY <1>2, <1>5
  <2>2. QED
    BY <1>1, <1>4, <1>7, <2>1
<1>8. QED
  BY <1>6, <1>7

(* What a handler that is not idle holds.                                    *)
LEMMA HandlerTypes ==
    ASSUME ServerTypes
    PROVE /\ \A k \in Conns : hand[k] # NoHandler =>
                hand[k][1] \in {"set", "get", "put"} /\ hand[k][2] \in Reports
          /\ \A k \in Conns : hand[k][1] # "idle" => hand[k] # NoHandler
          /\ auth # NoHandler => auth[1] \in {"start", "fail"} /\ auth[2] \in Transfers
          /\ auth[1] # "idle" => auth # NoHandler
  BY DEF ServerTypes, NoHandler

(* Typing: the two requests.                                                 *)
LEMMA TypeRequests ==
    ASSUME TypeOK, NEW t \in Transfers, InitCheck(t) \/ Initiate(t) \/ CancelRead(t) \/ Cancel(t)
    PROVE TypeOK'
<1> USE TransferAssumption DEF TypeOK, rowVars, reqVars, destNet, sourceNet, runVars, sourceVars
<1>1. ServerTypes'
  <2> USE DEF ServerTypes, Statuses, Terminal
  <2>1. CASE InitCheck(t) \/ InitSend(t)
    BY <2>1 DEF InitCheck, InitSend
  <2>2. CASE InitCreate(t)
    BY <2>2 DEF InitCreate, SetStatus
  <2>3. CASE InitSendFails(t)
    BY <2>3 DEF InitSendFails, FailPeer, SetStatus
  <2>4. CASE CancelRead(t) \/ CancelSend(t)
    BY <2>4 DEF CancelRead, CancelSend
  <2>5. CASE CancelSet(t)
    BY <2>5 DEF CancelSet, SetStatus
  <2>6. CASE CancelGet(t)
    BY <2>6 DEF CancelGet
  <2>7. CASE CancelPut(t)
    BY <2>7 DEF CancelPut
  <2>8. QED
    BY <2>1, <2>2, <2>3, <2>4, <2>5, <2>6, <2>7 DEF Initiate, Cancel
<1>2. NetTypes'
  <2>1. CASE InitSend(t)
    <3>1. <<"authorize", t>> \in SourceCommands
      BY DEF SourceCommands
    <3>2. Append(toSource, <<"authorize", t>>) \in Seq(SourceCommands)
      BY <3>1, AppendRange DEF NetTypes
    <3>3. toDest' \in Seq(Commands) /\ toSource' \in Seq(SourceCommands)
      BY <2>1, <3>2, SendDestAdds DEF InitSend, NetTypes
    <3>4. QED
      BY <2>1, <3>3 DEF InitSend, NetTypes
  <2>2. CASE InitSendFails(t)
    <3>1. toSource' \in Seq(SourceCommands)
      BY <2>2, RevokePeerType DEF InitSendFails, FailPeer, NetTypes
    <3>2. QED
      BY <2>2, <3>1 DEF InitSendFails, NetTypes
  <2>3. CASE CancelSend(t)
    <3>1. toDest' \in Seq(Commands) /\ toSource' \in Seq(SourceCommands)
      BY <2>3, SendDestAdds, RevokePeerType DEF CancelSend
    <3>2. QED
      BY <2>3, <3>1 DEF CancelSend, NetTypes
  <2>4. CASE InitCheck(t) \/ InitCreate(t) \/ CancelRead(t) \/ CancelSet(t) \/ CancelGet(t) \/ CancelPut(t)
    BY <2>4 DEF InitCheck, InitCreate, CancelRead, CancelSet, CancelGet, CancelPut, NetTypes
  <2>5. QED
    BY <2>1, <2>2, <2>3, <2>4 DEF Initiate, Cancel
<1>3. AgentTypes'
  BY DEF Initiate, Cancel, InitCheck, InitCreate, InitSend, InitSendFails, CancelRead, CancelSet,
         CancelSend, CancelGet, CancelPut, AgentTypes
<1>4. QED
  BY <1>1, <1>2, <1>3

(* Typing: the message handlers of the server.                               *)
LEMMA TypeHandlers ==
    ASSUME TypeOK, (\E k \in Conns : Progress(k)) \/ AuthResult
    PROVE TypeOK'
<1> USE TransferAssumption DEF TypeOK, rowVars, reqVars, destNet, sourceNet, runVars, sourceVars
<1>1. ASSUME NEW k \in Conns, ProgressRead(k) PROVE TypeOK'
  <2>1. Head(fromDest[k]) \in Reports /\ Tail(fromDest[k]) \in Seq(Reports)
    BY <1>1, TailRange DEF ProgressRead, NetTypes
  <2>2. Head(fromDest[k]).id \in Transfers
    BY <2>1 DEF Reports
  <2>3. toDest' \in Seq(Commands)
    BY <1>1, <2>2, SendDestAdds DEF ProgressRead, NetTypes
  <2>4. hand' = hand \/ hand' = [hand EXCEPT ![k] = <<"set", Head(fromDest[k])>>]
    BY <1>1 DEF ProgressRead
  <2>5. ServerTypes'
    BY <1>1, <2>1, <2>4 DEF ProgressRead, ServerTypes
  <2>6. NetTypes'
    BY <1>1, <2>1, <2>3 DEF ProgressRead, NetTypes
  <2>7. QED
    BY <1>1, <2>5, <2>6 DEF ProgressRead, AgentTypes
<1>2. ASSUME NEW k \in Conns, ProgressSet(k) PROVE TypeOK'
  <2>1. hand[k][2] \in Reports
    BY <1>2, HandlerTypes DEF ProgressSet
  <2>2. hand[k][2].id \in Transfers /\ hand[k][2].status \in Statuses
    BY <2>1 DEF Reports, Statuses, Terminal
  <2>3. toSource' \in Seq(SourceCommands)
    BY <1>2, <2>2, RevokePeerType DEF ProgressSet, NetTypes
  <2>4. ServerTypes'
    BY <1>2, <2>1, <2>2 DEF ProgressSet, SetStatus, ServerTypes
  <2>5. NetTypes'
    BY <1>2, <2>3 DEF ProgressSet, NetTypes
  <2>6. QED
    BY <1>2, <2>4, <2>5 DEF ProgressSet, AgentTypes
<1>3. ASSUME NEW k \in Conns, ProgressGet(k) PROVE TypeOK'
  <2>1. ServerTypes'
    BY <1>3, HandlerTypes DEF ProgressGet, ServerTypes
  <2>2. QED
    BY <1>3, <2>1 DEF ProgressGet, NetTypes, AgentTypes
<1>4. ASSUME NEW k \in Conns, ProgressPut(k) PROVE TypeOK'
  <2>1. hand[k][2].id \in Transfers
    BY <1>4, HandlerTypes DEF ProgressPut, Reports
  <2>2. ServerTypes'
    BY <1>4, <2>1 DEF ProgressPut, ServerTypes
  <2>3. QED
    BY <1>4, <2>2 DEF ProgressPut, NetTypes, AgentTypes
<1>5. CASE AuthRead
  <2>1. Head(fromSource) \in Transfers \X BOOLEAN /\ Tail(fromSource) \in Seq(Transfers \X BOOLEAN)
    BY <1>5, TailRange DEF AuthRead, NetTypes
  <2>2. ServerTypes'
    BY <1>5, <2>1 DEF AuthRead, ServerTypes
  <2>3. QED
    BY <1>5, <2>1, <2>2 DEF AuthRead, NetTypes, AgentTypes
<1>6. CASE AuthStart
  <2>1. auth[2] \in Transfers
    BY <1>6, HandlerTypes DEF AuthStart
  <2>2. toDest' \in Seq(Commands)
    BY <1>6, <2>1, SendDestAdds DEF AuthStart
  <2>3. QED
    BY <1>6, <2>2 DEF AuthStart, ServerTypes, NetTypes, AgentTypes
<1>7. CASE AuthFail
  <2>1. auth[2] \in Transfers
    BY <1>7, HandlerTypes DEF AuthFail
  <2>2. toSource' \in Seq(SourceCommands)
    BY <1>7, <2>1, RevokePeerType DEF AuthFail, FailPeer
  <2>3. ServerTypes'
    BY <1>7, <2>1 DEF AuthFail, FailPeer, SetStatus, ServerTypes, Statuses, Terminal
  <2>4. QED
    BY <1>7, <2>2, <2>3 DEF AuthFail, NetTypes, AgentTypes
<1>8. QED
  BY <1>1, <1>2, <1>3, <1>4, <1>5, <1>6, <1>7 DEF Progress, AuthResult

(* Typing: the agents.                                                       *)
LEMMA TypeAgents ==
    ASSUME TypeOK, DestLoop \/ SourceLoop \/ \E t \in Transfers : Run(t) \/ GrantExpires(t)
    PROVE TypeOK'
<1> USE TransferAssumption DEF TypeOK, rowVars, reqVars, destNet, sourceNet, runVars, sourceVars
<1>1. CASE ReceiveStart \/ ReceiveCancel
  <2>1. Head(toDest) \in Commands /\ Tail(toDest) \in Seq(Commands)
    BY <1>1, TailRange DEF ReceiveStart, ReceiveCancel, NetTypes
  <2>2. Head(toDest)[2] \in Transfers
    BY <2>1 DEF Commands
  <2>3. conn \in 0..MaxConns
    BY DEF NetTypes, Conns
  <2>4. AgentTypes'
    <3>1. CASE ReceiveStart
      BY <2>2, <2>3, <3>1 DEF ReceiveStart, AgentTypes, Running
    <3>2. CASE ReceiveCancel
      <4>1. \A t \in Transfers : (stop[t] \/ run[t] \in Running) \in BOOLEAN
        BY DEF AgentTypes
      <4>2. stop' \in [Transfers -> BOOLEAN]
        BY <2>2, <3>2, <4>1 DEF ReceiveCancel, AgentTypes
      <4>3. QED
        BY <3>2, <4>2 DEF ReceiveCancel, AgentTypes
    <3>3. QED
      BY <1>1, <3>1, <3>2
  <2>5. NetTypes'
    BY <1>1, <2>1 DEF ReceiveStart, ReceiveCancel, NetTypes
  <2>6. QED
    BY <1>1, <2>4, <2>5 DEF ReceiveStart, ReceiveCancel, ServerTypes
<1>2. CASE Authorize \/ Revoke
  <2>1. Head(toSource) \in SourceCommands /\ Tail(toSource) \in Seq(SourceCommands)
    BY <1>2, TailRange DEF Authorize, Revoke, NetTypes
  <2>2. Head(toSource)[2] \in Transfers
    BY <2>1 DEF SourceCommands
  <2>3. \A b \in BOOLEAN : Append(fromSource, <<Head(toSource)[2], b>>) \in Seq(Transfers \X BOOLEAN)
    BY <2>2, AppendRange DEF NetTypes
  <2>4. fromSource' \in Seq(Transfers \X BOOLEAN) /\ toSource' \in Seq(SourceCommands)
    BY <1>2, <2>1, <2>3 DEF Authorize, Revoke, NetTypes
  <2>5. NetTypes'
    BY <1>2, <2>4 DEF Authorize, Revoke, NetTypes
  <2>6. AgentTypes'
    BY <1>2, <2>2 DEF Authorize, Revoke, AgentTypes
  <2>7. QED
    BY <1>2, <2>5, <2>6 DEF Authorize, Revoke, ServerTypes
<1>3. ASSUME NEW t \in Transfers, RunBegin(t) PROVE TypeOK'
  <2>1. fromDest' \in [Conns -> Seq(Reports)]
    BY <1>3, SayAdds DEF RunBegin
  <2>2. AgentTypes'
    BY <1>3 DEF RunBegin, StartWriting, AgentTypes, Running
  <2>3. QED
    BY <1>3, <2>1, <2>2 DEF RunBegin, ServerTypes, NetTypes
<1>4. ASSUME NEW t \in Transfers, RunConnect(t) \/ RunWrite(t) \/ GrantExpires(t) PROVE TypeOK'
  <2>1. CASE RunConnect(t)
    <3>1. shared' \subseteq Models
      BY <2>1 DEF RunConnect, StartWriting, AgentTypes
    <3>2. QED
      BY <2>1, <3>1 DEF RunConnect, ServerTypes, NetTypes, AgentTypes, Running
  <2>2. CASE RunWrite(t)
    BY <2>2 DEF RunWrite, ServerTypes, NetTypes, AgentTypes
  <2>3. CASE GrantExpires(t)
    BY <2>3 DEF GrantExpires, ServerTypes, NetTypes, AgentTypes
  <2>4. QED
    BY <1>4, <2>1, <2>2, <2>3
<1>5. ASSUME NEW t \in Transfers, RunFinish(t) PROVE TypeOK'
  <2>1. fromDest' \in [Conns -> Seq(Reports)]
    BY <1>5, SayAdds DEF RunFinish, Terminal
  <2>2. AgentTypes'
    BY <1>5 DEF RunFinish, AgentTypes
  <2>3. QED
    BY <1>5, <2>1, <2>2 DEF RunFinish, ServerTypes, NetTypes
<1>6. ASSUME NEW t \in Transfers, RunFails(t) PROVE TypeOK'
  <2>1. fromDest' \in [Conns -> Seq(Reports)]
    BY <1>6, SayAdds DEF RunFails, FailureStatus, Terminal
  <2>2. AgentTypes'
    BY <1>6 DEF RunFails, AgentTypes
  <2>3. QED
    BY <1>6, <2>1, <2>2 DEF RunFails, ServerTypes, NetTypes
<1>7. QED
  BY <1>1, <1>2, <1>3, <1>4, <1>5, <1>6 DEF DestLoop, SourceLoop, Run

(* Typing: the environment.                                                  *)
LEMMA TypeEnvironment ==
    ASSUME TypeOK,
           \/ Drop \/ Reconnect \/ SourceDrop \/ SourceReconnect \/ AgentRestart \/ ServerRestart
           \/ \E k \in Conns : LoseReports(k)
    PROVE TypeOK'
<1> USE TransferAssumption DEF TypeOK, rowVars, reqVars, destNet, sourceNet, runVars, sourceVars
<1>1. ServerTypes'
  BY DEF Drop, Reconnect, SourceDrop, SourceReconnect, AgentRestart, ServerRestart, LoseReports, ServerTypes
<1>2. AgentTypes'
  BY DEF Drop, Reconnect, SourceDrop, SourceReconnect, AgentRestart, ServerRestart, LoseReports,
         AgentTypes, Running
<1>3. NetTypes'
  <2>0. \A S : <<>> \in Seq(S)
    OBVIOUS
  <2>1. CASE Drop
    BY <2>0, <2>1 DEF Drop, NetTypes
  <2>2. CASE Reconnect
    <3>1. conn' \in Conns
      BY <2>2 DEF Reconnect, NetTypes, Conns
    <3>2. QED
      BY <2>2, <3>1 DEF Reconnect, NetTypes
  <2>3. CASE SourceDrop \/ SourceReconnect
    <3>1. drops' \in 0..MaxSourceDrops
      BY <2>3 DEF SourceDrop, SourceReconnect, NetTypes
    <3>2. QED
      BY <2>0, <2>3, <3>1 DEF SourceDrop, SourceReconnect, NetTypes
  <2>4. CASE AgentRestart \/ ServerRestart
    <3>1. PICK p \in {"agent", "server"} :
              restarts[p] < MaxRestarts /\ restarts' = [restarts EXCEPT ![p] = restarts[p] + 1]
      BY <2>4 DEF AgentRestart, ServerRestart
    <3>2. restarts[p] + 1 \in 0..MaxRestarts
      BY <3>1 DEF NetTypes
    <3>3. restarts' \in [{"agent", "server"} -> 0..MaxRestarts]
      BY <3>1, <3>2 DEF NetTypes
    <3>4. CASE AgentRestart
      BY <2>0, <3>3, <3>4 DEF AgentRestart, NetTypes
    <3>5. CASE ServerRestart
      BY <2>0, <3>3, <3>5 DEF ServerRestart, NetTypes
    <3>6. QED
      BY <2>4, <3>4, <3>5
  <2>5. ASSUME NEW k \in Conns, LoseReports(k) PROVE NetTypes'
    BY <2>0, <2>5 DEF LoseReports, NetTypes
  <2>6. QED
    BY <2>1, <2>2, <2>3, <2>4, <2>5
<1>4. QED
  BY <1>1, <1>2, <1>3

(* Every step preserves the types.                                           *)
LEMMA TypeStep == TypeOK /\ [Next]_vars => TypeOK'
<1> SUFFICES ASSUME TypeOK, [Next]_vars PROVE TypeOK'
  OBVIOUS
<1>1. CASE Next
  BY <1>1, TypeRequests, TypeHandlers, TypeAgents, TypeEnvironment DEF Next
<1>2. CASE UNCHANGED vars
  BY <1>2 DEF vars, rowVars, reqVars, destNet, sourceNet, runVars, sourceVars, TypeOK, ServerTypes,
              NetTypes, AgentTypes
<1>3. QED
  BY <1>1, <1>2

(* The steps that say nothing about an authorization: it stands as it was.   *)
LEMMA AuthorizationsKept ==
    ASSUME AuthorizationsTrue, PullIsAuthorized, kind' = kind, authorized \subseteq authorized',
           auth' = auth \/ auth' = NoHandler,
           Range(fromSource') \subseteq Range(fromSource),
           \A x \in Range(toDest') : x \in Range(toDest) \/ x[1] = "cancel",
           \A t \in Transfers : run'[t] # "none" => run[t] # "none"
    PROVE AuthorizationsTrue' /\ PullIsAuthorized'
<1>1. AuthorizationsTrue'
  BY DEF AuthorizationsTrue
<1>2. PullIsAuthorized'
  BY DEF PullIsAuthorized
<1>3. QED
  BY <1>1, <1>2

(* A peer transfer reaches the destination only behind the source's word.    *)
LEMMA AuthorizationStep == TypeOK /\ AuthorizationsTrue /\ PullIsAuthorized /\ [Next]_vars
                              => AuthorizationsTrue' /\ PullIsAuthorized'
<1> SUFFICES ASSUME TypeOK, AuthorizationsTrue, PullIsAuthorized, [Next]_vars
             PROVE AuthorizationsTrue' /\ PullIsAuthorized'
  OBVIOUS
<1> USE DEF TypeOK, rowVars, reqVars, destNet, sourceNet, runVars, sourceVars
<1>1. ASSUME NEW t \in Transfers, InitSend(t) PROVE AuthorizationsTrue' /\ PullIsAuthorized'
  <2>1. \A x \in Range(toDest') : x \in Range(toDest) \/ (x = <<"start", t>> /\ kind[t] # "peer")
    BY <1>1, SendDestAdds DEF InitSend
  <2>2. AuthorizationsTrue'
    BY <1>1, <2>1 DEF InitSend, AuthorizationsTrue
  <2>3. QED
    BY <1>1, <2>2 DEF InitSend, PullIsAuthorized
<1>2. ASSUME NEW t \in Transfers, CancelSend(t) PROVE AuthorizationsTrue' /\ PullIsAuthorized'
  <2>1. \A x \in Range(toDest') : x \in Range(toDest) \/ x[1] = "cancel"
    BY <1>2, SendDestAdds DEF CancelSend
  <2>2. QED
    BY <1>2, <2>1, AuthorizationsKept DEF CancelSend
<1>3. ASSUME NEW k \in Conns, ProgressRead(k) PROVE AuthorizationsTrue' /\ PullIsAuthorized'
  <2>0. Head(fromDest[k]) \in Reports
    BY <1>3, TailRange DEF ProgressRead, NetTypes
  <2>1. Head(fromDest[k]).id \in Transfers
    BY <2>0 DEF Reports
  <2>2. \A x \in Range(toDest') : x \in Range(toDest) \/ x[1] = "cancel"
    BY <1>3, <2>1, SendDestAdds DEF ProgressRead
  <2>3. QED
    BY <1>3, <2>2, AuthorizationsKept DEF ProgressRead
<1>4. CASE AuthRead
  <2>1. /\ Head(fromSource) \in Transfers \X BOOLEAN /\ Head(fromSource) \in Range(fromSource)
        /\ Range(fromSource') \subseteq Range(fromSource)
    BY <1>4, TailRange DEF AuthRead, NetTypes
  <2>2. auth' # NoHandler /\ auth'[1] = "start" => auth'[2] \in authorized
    BY <1>4, <2>1 DEF AuthRead, AuthorizationsTrue
  <2>3. AuthorizationsTrue'
    BY <1>4, <2>1, <2>2 DEF AuthRead, AuthorizationsTrue
  <2>4. QED
    BY <1>4, <2>3 DEF AuthRead, PullIsAuthorized
<1>5. CASE AuthStart
  <2>1. auth[2] \in Transfers /\ auth # NoHandler
    BY <1>5, HandlerTypes DEF AuthStart
  <2>2. auth[2] \in authorized
    BY <1>5, <2>1 DEF AuthStart, AuthorizationsTrue
  <2>3. \A x \in Range(toDest') : x \in Range(toDest) \/ x = <<"start", auth[2]>>
    BY <1>5, <2>1, SendDestAdds DEF AuthStart
  <2>4. AuthorizationsTrue'
    BY <1>5, <2>2, <2>3 DEF AuthStart, AuthorizationsTrue
  <2>5. QED
    BY <1>5, <2>4 DEF AuthStart, PullIsAuthorized
<1>6. CASE ReceiveStart
  <2>1. /\ Head(toDest) \in Commands /\ Head(toDest) \in Range(toDest)
        /\ Range(toDest') \subseteq Range(toDest)
    BY <1>6, TailRange DEF ReceiveStart, NetTypes
  <2>2. Head(toDest)[2] \in Transfers
    BY <2>1 DEF Commands
  <2>3. kind[Head(toDest)[2]] = "peer" => Head(toDest)[2] \in authorized
    BY <1>6, <2>1 DEF ReceiveStart, AuthorizationsTrue
  <2>4. PullIsAuthorized'
    BY <1>6, <2>2, <2>3 DEF ReceiveStart, PullIsAuthorized, AgentTypes
  <2>5. QED
    BY <1>6, <2>1, <2>4 DEF ReceiveStart, AuthorizationsTrue
<1>7. CASE ReceiveCancel
  <2>1. Range(toDest') \subseteq Range(toDest)
    BY <1>7, TailRange DEF ReceiveCancel, NetTypes
  <2>2. QED
    BY <1>7, <2>1, AuthorizationsKept DEF ReceiveCancel
<1>8. CASE Authorize
  <2>1. Head(toSource) \in SourceCommands
    BY <1>8, TailRange DEF Authorize, NetTypes
  <2>2. Head(toSource)[2] \in Transfers
    BY <2>1 DEF SourceCommands
  <2> DEFINE t == Head(toSource)[2]
  <2>3. PICK b \in BOOLEAN : fromSource' = Append(fromSource, <<t, b>>) /\ (b => t \in authorized')
    BY <1>8 DEF Authorize
  <2> DEFINE e == <<t, b>>
  <2>4. e \in Transfers \X BOOLEAN /\ e[1] = t /\ e[2] = b
    BY <2>2
  <2>5. fromSource' = Append(fromSource, e) /\ fromSource \in Seq(Transfers \X BOOLEAN)
    BY <2>3 DEF NetTypes
  <2> HIDE DEF t, e
  <2>6. Range(fromSource') = Range(fromSource) \cup {e}
    BY <2>4, <2>5, AppendRange
  <2>7. authorized \subseteq authorized' /\ UNCHANGED <<kind, auth, toDest, run>>
    BY <1>8 DEF Authorize
  <2>8. AuthorizationsTrue'
    BY <2>3, <2>4, <2>6, <2>7 DEF AuthorizationsTrue
  <2>9. QED
    BY <2>7, <2>8 DEF PullIsAuthorized
<1>9. ASSUME NEW t \in Transfers, Run(t) PROVE AuthorizationsTrue' /\ PullIsAuthorized'
  <2>1. run' = run \/ \E s \in {"connect", "copy", "done"} : run[t] \in Running /\ run' = [run EXCEPT ![t] = s]
    BY <1>9 DEF Run, RunBegin, RunConnect, RunWrite, RunFinish, RunFails, Running
  <2>2. \A u \in Transfers : run'[u] # "none" => run[u] # "none"
    BY <2>1 DEF AgentTypes, Running
  <2>3. UNCHANGED <<kind, authorized, auth, fromSource, toDest>>
    BY <1>9 DEF Run, RunBegin, RunConnect, RunWrite, RunFinish, RunFails
  <2>4. QED
    BY <2>2, <2>3, AuthorizationsKept
<1>10. CASE \/ AuthFail \/ Revoke \/ Reconnect \/ SourceReconnect
            \/ \E k \in Conns : ProgressSet(k) \/ ProgressGet(k) \/ ProgressPut(k) \/ LoseReports(k)
            \/ \E t \in Transfers : \/ InitCheck(t) \/ InitCreate(t) \/ InitSendFails(t) \/ CancelRead(t)
                                    \/ CancelSet(t) \/ CancelGet(t) \/ CancelPut(t) \/ GrantExpires(t)
  <2>1. UNCHANGED <<kind, authorized, fromSource, toDest, run>> /\ (auth' = auth \/ auth' = NoHandler)
    BY <1>10 DEF AuthFail, Revoke, Reconnect, SourceReconnect, ProgressSet, ProgressGet, ProgressPut,
         LoseReports, InitCheck, InitCreate, InitSendFails, CancelRead, CancelSet, CancelGet, CancelPut,
         GrantExpires
  <2>2. QED
    BY <2>1, AuthorizationsKept
<1>11. CASE Drop \/ SourceDrop \/ AgentRestart \/ ServerRestart
  <2>1. /\ UNCHANGED <<kind, authorized>> /\ (auth' = auth \/ auth' = NoHandler)
        /\ (toDest' = toDest \/ toDest' = <<>>) /\ (fromSource' = fromSource \/ fromSource' = <<>>)
    BY <1>11 DEF Drop, SourceDrop, AgentRestart, ServerRestart
  <2>2. \A t \in Transfers : run'[t] # "none" => run[t] # "none"
    BY <1>11 DEF Drop, SourceDrop, AgentRestart, ServerRestart, Running
  <2>3. QED
    BY <2>1, <2>2, EmptyRange, AuthorizationsKept
<1>12. CASE UNCHANGED vars
  BY <1>12 DEF vars, AuthorizationsTrue, PullIsAuthorized
<1>13. QED
  BY <1>1, <1>2, <1>3, <1>4, <1>5, <1>6, <1>7, <1>8, <1>9, <1>10, <1>11, <1>12
     DEF Next, Initiate, Cancel, Progress, AuthResult, DestLoop, SourceLoop

(* The steps that report nothing new and complete no row.                    *)
LEMMA ReportsKept ==
    ASSUME ReportsTrue, CompletedWasFetched, fetched \subseteq fetched',
           \A k \in Conns : \A m \in Range(fromDest'[k]) :
               m \in Range(fromDest[k]) \/ (m.status = "completed" => m.id \in fetched'),
           \A k \in Conns : hand'[k] = NoHandler \/ (hand[k] # NoHandler /\ hand'[k][2] = hand[k][2]),
           \A t \in Transfers : row'[t] = "completed" => row[t] = "completed"
    PROVE ReportsTrue' /\ CompletedWasFetched'
<1>1. ReportsTrue'
  BY DEF ReportsTrue
<1>2. CompletedWasFetched'
  BY DEF CompletedWasFetched
<1>3. QED
  BY <1>1, <1>2

(* A run that has fetched everything stands behind every completed row.      *)
LEMMA ReportStep == TypeOK /\ ReportsTrue /\ CompletedWasFetched /\ [Next]_vars
                       => ReportsTrue' /\ CompletedWasFetched'
<1> SUFFICES ASSUME TypeOK, ReportsTrue, CompletedWasFetched, [Next]_vars
             PROVE ReportsTrue' /\ CompletedWasFetched'
  OBVIOUS
<1> USE DEF TypeOK, rowVars, reqVars, destNet, sourceNet, runVars, sourceVars
<1>1. ASSUME NEW k \in Conns, ProgressRead(k) PROVE ReportsTrue' /\ CompletedWasFetched'
  <2> DEFINE m == Head(fromDest[k])
  <2>1. m \in Range(fromDest[k]) /\ Range(Tail(fromDest[k])) \subseteq Range(fromDest[k])
    BY <1>1, TailRange DEF ProgressRead, NetTypes
  <2>2. hand' = hand \/ hand' = [hand EXCEPT ![k] = <<"set", m>>]
    BY <1>1 DEF ProgressRead
  <2>3. fromDest' = [fromDest EXCEPT ![k] = Tail(fromDest[k])]
    BY <1>1 DEF ProgressRead
  <2>4. UNCHANGED <<row, fetched>>
    BY <1>1 DEF ProgressRead
  <2> HIDE DEF m
  <2>5. m.status = "completed" => m.id \in fetched
    BY <2>1 DEF ReportsTrue
  <2>6. ASSUME NEW j \in Conns
        PROVE /\ Range(fromDest'[j]) \subseteq Range(fromDest[j])
              /\ hand'[j] = hand[j] \/ hand'[j] = <<"set", m>>
    BY <2>1, <2>2, <2>3 DEF NetTypes, ServerTypes
  <2>7. ReportsTrue'
    BY <2>4, <2>5, <2>6 DEF ReportsTrue
  <2>8. QED
    BY <2>4, <2>7 DEF CompletedWasFetched
<1>2. ASSUME NEW k \in Conns, ProgressSet(k) PROVE ReportsTrue' /\ CompletedWasFetched'
  <2> DEFINE m == hand[k][2]
  <2>1. m \in Reports /\ hand[k] # NoHandler
    BY <1>2, HandlerTypes DEF ProgressSet
  <2>2. m.status = "completed" => m.id \in fetched
    BY <2>1 DEF ReportsTrue
  <2>3. UNCHANGED <<fromDest, fetched>> /\ row' = [row EXCEPT ![m.id] = m.status]
    BY <1>2 DEF ProgressSet, SetStatus
  <2>4. \A j \in Conns : hand'[j] = NoHandler \/ (hand[j] # NoHandler /\ hand'[j][2] = hand[j][2])
    BY <1>2, <2>1 DEF ProgressSet, ServerTypes
  <2>5. ReportsTrue'
    BY <2>3, <2>4 DEF ReportsTrue
  <2>6. CompletedWasFetched'
    BY <2>2, <2>3 DEF CompletedWasFetched, ServerTypes
  <2>7. QED
    BY <2>5, <2>6
<1>3. ASSUME NEW k \in Conns, ProgressGet(k) \/ ProgressPut(k) PROVE ReportsTrue' /\ CompletedWasFetched'
  <2>1. hand[k] # NoHandler
    BY <1>3, HandlerTypes DEF ProgressGet, ProgressPut
  <2>2. \A j \in Conns : hand'[j] = NoHandler \/ (hand[j] # NoHandler /\ hand'[j][2] = hand[j][2])
    BY <1>3, <2>1 DEF ProgressGet, ProgressPut, ServerTypes
  <2>3. UNCHANGED <<fromDest, fetched, row>>
    BY <1>3 DEF ProgressGet, ProgressPut
  <2>4. QED
    BY <2>2, <2>3, ReportsKept
<1>4. ASSUME NEW t \in Transfers, RunBegin(t) \/ RunFails(t) PROVE ReportsTrue' /\ CompletedWasFetched'
  <2>1. PICK st \in {"transferring", "failed", "cancelled"}, b \in BOOLEAN : Say(t, st, b)
    BY <1>4 DEF RunBegin, RunFails, FailureStatus
  <2>2. \A k \in Conns : \A m \in Range(fromDest'[k]) : m \in Range(fromDest[k]) \/ m.status = st
    BY <2>1, SayAdds DEF Terminal
  <2>3. UNCHANGED <<hand, row, fetched>>
    BY <1>4 DEF RunBegin, RunFails
  <2>4. QED
    BY <2>2, <2>3, ReportsKept
<1>5. ASSUME NEW t \in Transfers, RunFinish(t) PROVE ReportsTrue' /\ CompletedWasFetched'
  <2>1. \A k \in Conns : \A m \in Range(fromDest'[k]) : m \in Range(fromDest[k]) \/ m.id = t
    <3>1. Say(t, "completed", TRUE) /\ "completed" \in {"transferring"} \cup Terminal /\ TRUE \in BOOLEAN
      BY <1>5 DEF RunFinish, Terminal
    <3>2. QED
      BY <3>1, SayAdds
  <2>2. UNCHANGED <<hand, row>> /\ fetched' = fetched \cup {t}
    BY <1>5 DEF RunFinish
  <2>3. QED
    BY <2>1, <2>2, ReportsKept
<1>6. CASE \E t \in Transfers : InitCreate(t) \/ InitSendFails(t) \/ CancelSet(t)
  <2>1. PICK t \in Transfers : InitCreate(t) \/ InitSendFails(t) \/ CancelSet(t)
    BY <1>6
  <2>2. row' = row \/ \E st \in {"queued", "failed", "cancelled"} : row' = [row EXCEPT ![t] = st]
    BY <2>1 DEF InitCreate, InitSendFails, CancelSet, FailPeer, SetStatus
  <2>3. \A u \in Transfers : row'[u] = "completed" => row[u] = "completed"
    BY <2>2 DEF ServerTypes
  <2>4. UNCHANGED <<hand, fromDest, fetched>>
    BY <2>1 DEF InitCreate, InitSendFails, CancelSet
  <2>5. QED
    BY <2>3, <2>4, ReportsKept
<1>7. CASE AuthFail
  <2>1. auth[2] \in Transfers /\ row' = [row EXCEPT ![auth[2]] = "failed"]
    BY <1>7, HandlerTypes DEF AuthFail, FailPeer, SetStatus
  <2>2. \A u \in Transfers : row'[u] = "completed" => row[u] = "completed"
    BY <2>1 DEF ServerTypes
  <2>3. UNCHANGED <<hand, fromDest, fetched>>
    BY <1>7 DEF AuthFail
  <2>4. QED
    BY <2>2, <2>3, ReportsKept
<1>8. CASE ServerRestart \/ \E k \in Conns : LoseReports(k)
  <2>1. \A k \in Conns : fromDest'[k] = <<>> \/ fromDest'[k] = fromDest[k]
    BY <1>8 DEF ServerRestart, LoseReports, NetTypes
  <2>2. UNCHANGED <<row, fetched>> /\ \A k \in Conns : hand'[k] = NoHandler \/ hand'[k] = hand[k]
    BY <1>8 DEF ServerRestart, LoseReports, NetTypes
  <2>3. QED
    BY <2>1, <2>2, EmptyRange, ReportsKept
<1>9. CASE \/ AuthRead \/ AuthStart \/ DestLoop \/ SourceLoop
           \/ Drop \/ Reconnect \/ SourceDrop \/ SourceReconnect \/ AgentRestart
           \/ \E t \in Transfers : \/ InitCheck(t) \/ InitSend(t) \/ CancelRead(t) \/ CancelSend(t)
                                   \/ CancelGet(t) \/ CancelPut(t)
                                   \/ RunConnect(t) \/ RunWrite(t) \/ GrantExpires(t)
           \/ UNCHANGED vars
  <2>1. UNCHANGED <<row, hand, fromDest, fetched>>
    BY <1>9 DEF AuthRead, AuthStart, DestLoop, SourceLoop, ReceiveStart, ReceiveCancel, Authorize, Revoke,
         Drop, Reconnect, SourceDrop, SourceReconnect, AgentRestart, InitCheck, InitSend, CancelRead,
         CancelSend, CancelGet, CancelPut, RunConnect, RunWrite, GrantExpires, vars
  <2>2. QED
    BY <2>1, ReportsKept
<1>10. QED
  BY <1>1, <1>2, <1>3, <1>4, <1>5, <1>6, <1>7, <1>8, <1>9
     DEF Next, Initiate, Cancel, Progress, AuthResult, Run

(* What was fetched stays whole, and the inventory says so of nothing else.  *)
LEMMA PresentStep == IInv /\ [Next]_vars => FetchedIsWhole' /\ PresentWasFetched'
<1> SUFFICES ASSUME IInv, [Next]_vars PROVE FetchedIsWhole' /\ PresentWasFetched'
  OBVIOUS
<1> USE TransferAssumption
    DEF IInv, TypeOK, rowVars, reqVars, destNet, sourceNet, runVars, sourceVars
<1>1. ASSUME NEW k \in Conns, ProgressPut(k) PROVE FetchedIsWhole' /\ PresentWasFetched'
  <2> DEFINE m == hand[k][2]
  <2>1. m \in Reports /\ hand[k] # NoHandler
    BY <1>1, HandlerTypes DEF ProgressPut
  <2>2. m.status = "completed" => m.id \in fetched
    BY <2>1 DEF ReportsTrue
  <2>3. PresentWasFetched'
    BY <1>1, <2>2 DEF ProgressPut, PresentWasFetched, ServerTypes
  <2>4. QED
    BY <1>1, <2>3 DEF ProgressPut, FetchedIsWhole
<1>2. ASSUME NEW t \in Transfers, CancelPut(t) PROVE FetchedIsWhole' /\ PresentWasFetched'
  BY <1>2 DEF CancelPut, FetchedIsWhole, PresentWasFetched, ServerTypes
<1>3. ASSUME NEW t \in Transfers, RunWrite(t) PROVE FetchedIsWhole' /\ PresentWasFetched'
  BY <1>3 DEF RunWrite, FetchedIsWhole, PresentWasFetched, AgentTypes
<1>4. ASSUME NEW t \in Transfers, RunFinish(t) PROVE FetchedIsWhole' /\ PresentWasFetched'
  BY <1>4 DEF RunFinish, FetchedIsWhole, PresentWasFetched, AgentTypes
<1>5. ASSUME NEW t \in Transfers, RunBegin(t) \/ RunConnect(t) PROVE FetchedIsWhole' /\ PresentWasFetched'
  <2>1. shared \subseteq shared' /\ UNCHANGED <<disk, fetched, inventory>>
    BY <1>5 DEF RunBegin, RunConnect, StartWriting
  <2>2. QED
    BY <2>1 DEF FetchedIsWhole, PresentWasFetched
<1>6. CASE \/ AuthResult \/ DestLoop \/ SourceLoop \/ ServerRestart
           \/ Drop \/ Reconnect \/ SourceDrop \/ SourceReconnect \/ AgentRestart
           \/ \E k \in Conns : ProgressRead(k) \/ ProgressSet(k) \/ ProgressGet(k) \/ LoseReports(k)
           \/ \E t \in Transfers : \/ InitCheck(t) \/ Initiate(t) \/ CancelRead(t) \/ CancelSet(t)
                                   \/ CancelSend(t) \/ CancelGet(t) \/ RunFails(t) \/ GrantExpires(t)
           \/ UNCHANGED vars
  <2>1. UNCHANGED <<inventory, disk, shared, fetched>>
    BY <1>6 DEF AuthResult, AuthRead, AuthStart, AuthFail, DestLoop, SourceLoop, ReceiveStart, ReceiveCancel,
         Authorize, Revoke, ServerRestart, Drop, Reconnect, SourceDrop, SourceReconnect, AgentRestart,
         ProgressRead, ProgressSet, ProgressGet, LoseReports, InitCheck, Initiate, InitCreate, InitSend,
         InitSendFails, CancelRead, CancelSet, CancelSend, CancelGet, RunFails, GrantExpires, vars
  <2>2. QED
    BY <2>1 DEF FetchedIsWhole, PresentWasFetched
<1>7. QED
  BY <1>1, <1>2, <1>3, <1>4, <1>5, <1>6 DEF Next, Cancel, Progress, Run

(* The invariant holds throughout every behaviour.                           *)
THEOREM Invariance == Spec => []IInv
<1>1. IInv /\ [Next]_vars => IInv'
  BY TypeStep, AuthorizationStep, ReportStep, PresentStep DEF IInv
<1>2. QED
  BY InitIInv, <1>1, PTL DEF Spec

(* Every variable keeps its type.                                            *)
THEOREM TypeCorrect == Spec => []TypeOK
<1>1. IInv => TypeOK
  BY DEF IInv
<1>2. QED
  BY Invariance, <1>1, PTL

(* HandlePeerAuthorizeResult: the destination pulls only what the source has *)
(* authorized, whatever was dropped, restarted, refused or retried.          *)
THEOREM PullsAreAuthorized == Spec => []PullIsAuthorized
<1>1. IInv => PullIsAuthorized
  BY DEF IInv
<1>2. QED
  BY Invariance, <1>1, PTL

(* HandleTransferProgress: a row is completed only by a run of that transfer *)
(* that fetched everything.                                                  *)
THEOREM CompletedRowsWereFetched == Spec => []CompletedWasFetched
<1>1. IInv => CompletedWasFetched
  BY DEF IInv
<1>2. QED
  BY Invariance, <1>1, PTL

(* HandleTransferProgress and recordIncomplete: the inventory shows a model  *)
(* as present only when the node has all of it.                              *)
THEOREM PresentModelsAreWhole == Spec => []PresentIsWhole
<1>1. IInv => PresentIsWhole
  BY DEF IInv, FetchedIsWhole, PresentWasFetched, PresentIsWhole
<1>2. QED
  BY Invariance, <1>1, PTL
=============================================================================
