---------------------------- MODULE NotifyProofs ----------------------------
(***************************************************************************)
(* Proofs about the inbox (Alerts), its mail (Email) and the addresses the *)
(* mail goes to (Addresses), for any users, alerts, messages and requests. *)
(***************************************************************************)
EXTENDS Email, Addresses, FiniteSetTheorems, SequenceTheorems, TLAPS

-----------------------------------------------------------------------------
(* Addresses.                                                              *)

\* A request has a kind that fits its step, and is never about an AD-backed
\* account.
RequestsFit ==
    \A r \in Slots : LET q == request[r] IN
        /\ q.pc \in {"put", "mail"} => q.kind = "ask"
        /\ q.pc \in {"set", "done"} => q.kind = "set"
        /\ q.pc = "audit" => q.kind \in {"ask", "set"}
        /\ q.pc # "idle" => q.user \in Accounts \ DirectoryBacked /\ q.before.source \in LocalSources

\* A request that has put its confirmation and not yet answered.
Asking(q) == q.kind = "ask" /\ q.pc \in {"mail", "audit"}

\* Every token was handed out, and whoever holds the token of a pending change
\* holds it for that account and that address.
TokensNameOneChange ==
    /\ \A u \in Accounts : confirmation[u].token <= tokens
    /\ \A m \in mailed :
         /\ m.token \in 1..tokens
         /\ \A u \in Accounts : confirmation[u].token = m.token => m.user = u /\ m.addr = confirmation[u].addr
    /\ \A r \in Slots : Asking(request[r]) =>
         /\ request[r].token \in 1..tokens
         /\ \A u \in Accounts : confirmation[u].token = request[r].token =>
               request[r].user = u /\ request[r].next.addr = confirmation[u].addr

\* What a request is about to write, or would put back, was proven if it is
\* said to be.
WritesProven ==
    \A r \in Slots : LET q == request[r] IN
        q.pc # "idle" =>
            /\ q.kind = "set" /\ q.next.source = "self" => <<q.user, q.next.addr>> \in proven
            /\ q.before.source = "self" => <<q.user, q.before.addr>> \in proven

AddressInv == AddressTypes /\ RequestsFit /\ TokensNameOneChange /\ WritesProven /\ AddressWasConfirmed

\* At first there is no address, no request and no link.
LEMMA AddressesInitInv == AddressesInit => AddressInv
  <1> SUFFICES ASSUME AddressesInit PROVE AddressInv
      OBVIOUS
  <1> USE AddressesAssumption DEF AddressesInit, Unset, NoChange, NoRequest, LocalSources, StoredAddress,
           Confirmations, AddressRequests
  <1>1. AddressTypes
      BY DEF AddressTypes
  <1>2. RequestsFit /\ TokensNameOneChange /\ WritesProven
      BY DEF RequestsFit, TokensNameOneChange, WritesProven, Asking
  <1>3. AddressWasConfirmed
      BY DEF AddressWasConfirmed, IsDirectory
  <1> QED BY <1>1, <1>2, <1>3 DEF AddressInv

\* A request that begins, having read the address in use: it carries a new
\* address that is proven if it is the owner's, or asks for one.
LEMMA StartKeeps ==
    ASSUME AddressInv, NEW r \in Slots, NEW kind \in {"ask", "set"}, NEW u \in Accounts \ DirectoryBacked,
           NEW next \in StoredAddress(LocalSources), NEW token \in Nat,
           NEW pc, pc = IF kind = "ask" THEN "put" ELSE "set",
           Start(r, kind, u, next, pc, token),
           UNCHANGED <<address, confirmation, mailed, tokens>>,
           proven \subseteq proven', proven' \subseteq Accounts \X (Addrs \cup {NoAddr}),
           kind = "set" /\ next.source = "self" => <<u, next.addr>> \in proven'
    PROVE  AddressInv'
  <1> USE DEF AddressInv
  <1>1. AddressTypes'
      BY DEF AddressTypes, Start, StoredAddress, LocalSources, AddressRequests
  <1>2. RequestsFit'
      BY DEF AddressTypes, RequestsFit, Start, AddressWasConfirmed, IsDirectory, LocalSources
  <1>3. TokensNameOneChange'
      BY DEF AddressTypes, TokensNameOneChange, Start, Asking
  <1>4. WritesProven'
      BY DEF AddressTypes, WritesProven, Start, AddressWasConfirmed
  <1>5. AddressWasConfirmed'
      BY DEF AddressWasConfirmed, IsDirectory
  <1> QED BY <1>1, <1>2, <1>3, <1>4, <1>5

\* The calls: what they start with is as StartKeeps asks, a confirmed address
\* because the link that was opened was mailed to it for this account.
LEMMA CallsKeepAddresses == AddressInv /\ AddressCalls => AddressInv'
  <1> SUFFICES ASSUME AddressInv, NEW u \in Accounts, NEW r \in Slots,
                      \/ \E a \in Addrs : RequestMyAddress(r, u, a) \/ SetUserAddressConfirmed(r, u, a) \/ SetUserAddress(r, u, a)
                      \/ \E m \in mailed : ConfirmAddress(r, u, m)
                      \/ ClearMyAddress(r, u)
               PROVE  AddressInv'
      BY DEF AddressCalls
  <1>0. proven \subseteq Accounts \X (Addrs \cup {NoAddr})
      BY DEF AddressInv, AddressTypes
  <1>1. ASSUME NEW a \in Addrs, RequestMyAddress(r, u, a) \/ SetUserAddressConfirmed(r, u, a)
        PROVE  AddressInv'
      <2> PICK source \in {"self", "admin"} : Start(r, "ask", u, [addr |-> a, source |-> source], "put", 0)
          BY <1>1 DEF RequestMyAddress, SetUserAddressConfirmed
      <2> [addr |-> a, source |-> source] \in StoredAddress(LocalSources)
          BY DEF StoredAddress, LocalSources
      <2> QED BY <1>0, <1>1, StartKeeps DEF RequestMyAddress, SetUserAddressConfirmed, IsDirectory
  <1>2. ASSUME NEW a \in Addrs, SetUserAddress(r, u, a)
        PROVE  AddressInv'
      <2> [addr |-> a, source |-> "admin"] \in StoredAddress(LocalSources)
          BY DEF StoredAddress, LocalSources
      <2> QED BY <1>0, <1>2, StartKeeps DEF SetUserAddress, IsDirectory
  <1>3. ASSUME NEW m \in mailed, ConfirmAddress(r, u, m)
        PROVE  AddressInv'
      <2> DEFINE next == [addr |-> confirmation[u].addr, source |-> confirmation[u].source]
      <2>1. /\ m.token # 0 /\ confirmation[u].token = m.token
            /\ Start(r, "set", u, next, "set", m.token)
          BY <1>3 DEF ConfirmAddress, Lookup
      <2>2. m.token \in Nat /\ m.addr \in Addrs \cup {NoAddr} /\ next \in StoredAddress(LocalSources)
          BY DEF AddressInv, AddressTypes, StoredAddress, Confirmations
      <2>3. m.user = u /\ m.addr = next.addr
          BY <2>1 DEF AddressInv, TokensNameOneChange
      <2>4. proven' = proven \cup {<<u, next.addr>>}
          BY <1>3, <2>3 DEF ConfirmAddress
      <2>5. /\ u \in Accounts \ DirectoryBacked
            /\ UNCHANGED <<address, confirmation, mailed, tokens>>
            /\ proven \subseteq proven' /\ proven' \subseteq Accounts \X (Addrs \cup {NoAddr})
            /\ <<u, next.addr>> \in proven'
          BY <1>0, <1>3, <2>2, <2>3, <2>4 DEF ConfirmAddress, IsDirectory
      <2> HIDE DEF next
      <2> QED BY <2>1, <2>2, <2>5, StartKeeps
  <1>4. ASSUME ClearMyAddress(r, u)
        PROVE  AddressInv'
      <2> Unset \in StoredAddress(LocalSources) /\ Unset.source = "none"
          BY DEF Unset, StoredAddress, LocalSources
      <2> QED BY <1>0, <1>4, StartKeeps DEF ClearMyAddress, IsDirectory
  <1> QED BY <1>1, <1>2, <1>3, <1>4

\* What a request is left with when it goes a step on, and when it ends.
LEMMA RequestMoves ==
    ASSUME AddressTypes, NEW r \in Slots,
           NEW pc \in {"idle", "put", "mail", "set", "audit", "done"},
           request' = [request EXCEPT ![r].pc = pc]
    PROVE  /\ request' \in [Slots -> AddressRequests]
           /\ \A q \in Slots : /\ request'[q].pc = IF q = r THEN pc ELSE request[q].pc
                               /\ request'[q].kind = request[q].kind
                               /\ request'[q].user = request[q].user
                               /\ request'[q].next = request[q].next
                               /\ request'[q].before = request[q].before
                               /\ request'[q].token = request[q].token
  <1>1. \A x \in AddressRequests :
           /\ [x EXCEPT !.pc = pc] \in AddressRequests
           /\ [x EXCEPT !.pc = pc].pc = pc /\ [x EXCEPT !.pc = pc].kind = x.kind
           /\ [x EXCEPT !.pc = pc].user = x.user /\ [x EXCEPT !.pc = pc].next = x.next
           /\ [x EXCEPT !.pc = pc].before = x.before /\ [x EXCEPT !.pc = pc].token = x.token
      BY DEF AddressRequests
  <1>2. request \in [Slots -> AddressRequests]
      BY DEF AddressTypes
  <1>3. request' = [request EXCEPT ![r] = [request[r] EXCEPT !.pc = pc]]
      BY <1>2
  <1> DEFINE y == [request[r] EXCEPT !.pc = pc]
  <1>4. /\ y \in AddressRequests /\ y.pc = pc /\ y.kind = request[r].kind /\ y.user = request[r].user
        /\ y.next = request[r].next /\ y.before = request[r].before /\ y.token = request[r].token
      BY <1>1, <1>2
  <1> HIDE DEF y
  <1>5. request' \in [Slots -> AddressRequests] /\ \A q \in Slots : request'[q] = IF q = r THEN y ELSE request[q]
      BY <1>2, <1>3, <1>4 DEF y
  <1> QED BY <1>4, <1>5

\* A pending change that is removed, or only gets older, and a request that
\* ends, disturb nothing.
LEMMA EndKeeps ==
    ASSUME AddressInv, UNCHANGED <<address, mailed, tokens, proven>>,
           \/ UNCHANGED request
           \/ \E r \in Slots : request' = [request EXCEPT ![r] = NoRequest],
           confirmation' \in [Accounts -> Confirmations],
           \A u \in Accounts : \/ confirmation'[u].token = 0
                               \/ /\ confirmation'[u].token = confirmation[u].token
                                  /\ confirmation'[u].addr = confirmation[u].addr
    PROVE  AddressInv'
  <1> USE DEF AddressInv
  <1>0. \A q \in Slots : request'[q] = request[q] \/ request'[q] = NoRequest
      BY DEF AddressTypes
  <1>1. AddressTypes'
      <2> NoRequest \in AddressRequests
          BY DEF NoRequest, AddressRequests, Unset, StoredAddress, LocalSources
      <2> QED BY DEF AddressTypes
  <1>2. NoRequest.pc = "idle"
      BY DEF NoRequest
  <1>3. RequestsFit'
      BY <1>0, <1>2 DEF RequestsFit
  <1>4. WritesProven'
      BY <1>0, <1>2 DEF WritesProven
  <1>5. AddressWasConfirmed'
      BY DEF AddressWasConfirmed, IsDirectory
  <1>6. TokensNameOneChange'
      <2>1. \A u \in Accounts : confirmation'[u].token <= tokens'
          BY DEF AddressTypes, TokensNameOneChange
      <2>2. \A m \in mailed' :
              /\ m.token \in 1..tokens'
              /\ \A u \in Accounts : confirmation'[u].token = m.token => m.user = u /\ m.addr = confirmation'[u].addr
          BY DEF AddressTypes, TokensNameOneChange
      <2>3. \A r \in Slots : Asking(request'[r]) =>
              /\ request'[r].token \in 1..tokens'
              /\ \A u \in Accounts : confirmation'[u].token = request'[r].token =>
                    request'[r].user = u /\ request'[r].next.addr = confirmation'[u].addr
          BY <1>0, <1>2 DEF AddressTypes, TokensNameOneChange, Asking
      <2> QED BY <2>1, <2>2, <2>3 DEF TokensNameOneChange, Asking
  <1> QED BY <1>1, <1>3, <1>4, <1>5, <1>6

\* The steps of a request, each by the conjuncts it can disturb.
LEMMA StepsKeepAddresses == AddressInv /\ AddressSteps => AddressInv'
  <1> SUFFICES ASSUME AddressInv, AddressSteps PROVE AddressInv'
      OBVIOUS
  <1> USE DEF AddressInv
  <1>1. ASSUME NEW r \in Slots, PutConfirmation(r) PROVE AddressInv'
      <2> DEFINE q == request[r]
                 moved == [q EXCEPT !.pc = "mail", !.token = tokens + 1]
                 change == [token |-> tokens + 1, addr |-> q.next.addr, source |-> q.next.source,
                            recent |-> TRUE, expired |-> FALSE]
      <2>1. q \in AddressRequests /\ q.kind = "ask" /\ q.user \in Accounts \ DirectoryBacked
            /\ q.before.source \in LocalSources
          BY <1>1 DEF AddressTypes, PutConfirmation, RequestsFit
      <2>2. /\ request' = [request EXCEPT ![r] = moved]
            /\ confirmation' = [confirmation EXCEPT ![q.user] = change]
            /\ tokens' = tokens + 1
            /\ UNCHANGED <<address, mailed, proven>>
          BY <1>1, <2>1 DEF PutConfirmation, AddressTypes
      <2>3. /\ moved \in AddressRequests
            /\ moved.pc = "mail" /\ moved.kind = "ask" /\ moved.user = q.user /\ moved.next = q.next
            /\ moved.before = q.before /\ moved.token = tokens + 1
          <3>1. tokens + 1 \in Nat
              BY DEF AddressTypes
          <3> HIDE DEF q
          <3> QED BY <2>1, <3>1 DEF AddressRequests
      <2>4. change \in Confirmations /\ change.token = tokens + 1 /\ change.addr = q.next.addr
          BY <2>1 DEF AddressRequests, Confirmations, StoredAddress, AddressTypes
      <2>5. q.pc # "idle"
          BY <1>1 DEF PutConfirmation
      <2> HIDE DEF q, moved, change
      <2>6. AddressTypes'
          <3>1. tokens' \in Nat /\ q.user \in Accounts
              BY <2>1, <2>2 DEF AddressTypes
          <3>2. confirmation' \in [Accounts -> Confirmations]
              BY <2>2, <2>4 DEF AddressTypes
          <3>3. request' \in [Slots -> AddressRequests]
              BY <2>2, <2>3 DEF AddressTypes
          <3> QED BY <2>2, <3>1, <3>2, <3>3 DEF AddressTypes
      <2>7. \A s \in Slots : request'[s] = IF s = r THEN moved ELSE request[s]
          BY <2>2 DEF AddressTypes
      <2>8. \A u \in Accounts : confirmation'[u] = IF u = q.user THEN change ELSE confirmation[u]
          BY <2>2 DEF AddressTypes
      <2>9. RequestsFit'
          BY <2>1, <2>3, <2>7 DEF RequestsFit
      <2>10. WritesProven'
          BY <2>2, <2>3, <2>5, <2>7 DEF WritesProven, q
      <2>11. AddressWasConfirmed'
          BY <2>2 DEF AddressWasConfirmed, IsDirectory
      <2>12. TokensNameOneChange'
          <3>1. tokens \in Nat /\ \A u \in Accounts : confirmation[u].token \in Nat
              BY DEF AddressTypes, Confirmations
          <3>2. \A s \in Slots : request[s].token \in Nat
              BY DEF AddressTypes, AddressRequests
          <3>3. \A u \in Accounts : confirmation'[u].token <= tokens'
              BY <2>2, <2>4, <2>8, <3>1 DEF TokensNameOneChange
          <3>4. \A m \in mailed' :
                  /\ m.token \in 1..tokens'
                  /\ \A u \in Accounts : confirmation'[u].token = m.token => m.user = u /\ m.addr = confirmation'[u].addr
              BY <2>2, <2>4, <2>8, <3>1 DEF TokensNameOneChange
          <3>5. \A s \in Slots : Asking(request'[s]) =>
                  /\ request'[s].token \in 1..tokens'
                  /\ \A u \in Accounts : confirmation'[u].token = request'[s].token =>
                        request'[s].user = u /\ request'[s].next.addr = confirmation'[u].addr
              <4> SUFFICES ASSUME NEW s \in Slots, Asking(request'[s])
                           PROVE  /\ request'[s].token \in 1..tokens'
                                  /\ \A u \in Accounts : confirmation'[u].token = request'[s].token =>
                                        request'[s].user = u /\ request'[s].next.addr = confirmation'[u].addr
                  OBVIOUS
              <4>1. CASE s = r
                  BY <4>1, <2>2, <2>3, <2>4, <2>7, <2>8, <3>1 DEF TokensNameOneChange
              <4>2. CASE s # r
                  BY <4>2, <2>2, <2>4, <2>7, <2>8, <3>1, <3>2 DEF TokensNameOneChange
              <4> QED BY <4>1, <4>2
          <3> QED BY <3>3, <3>4, <3>5 DEF TokensNameOneChange, Asking
      <2> QED BY <2>6, <2>9, <2>10, <2>11, <2>12
  <1>2. ASSUME NEW r \in Slots, MailLink(r) PROVE AddressInv'
      <2> DEFINE q == request[r]
                 link == [token |-> q.token, user |-> q.user, addr |-> q.next.addr]
      <2>1. q \in AddressRequests /\ q.kind = "ask" /\ q.user \in Accounts /\ q.pc = "mail"
          BY <1>2 DEF AddressTypes, MailLink, RequestsFit
      <2>2. /\ mailed' = mailed \cup {link}
            /\ request' = [request EXCEPT ![r].pc = "audit"]
            /\ UNCHANGED <<address, confirmation, tokens, proven>>
          BY <1>2 DEF MailLink
      <2>3. /\ link \in [token : Nat, user : Accounts, addr : Addrs \cup {NoAddr}]
            /\ link.token = q.token /\ link.user = q.user /\ link.addr = q.next.addr
          BY <2>1 DEF AddressRequests, StoredAddress
      <2>4. /\ q.token \in 1..tokens
            /\ \A u \in Accounts : confirmation[u].token = q.token => q.user = u /\ q.next.addr = confirmation[u].addr
          BY <2>1 DEF TokensNameOneChange, Asking
      <2> HIDE DEF q, link
      <2>5. /\ request' \in [Slots -> AddressRequests]
            /\ \A s \in Slots : /\ request'[s].pc = IF s = r THEN "audit" ELSE request[s].pc
                                /\ request'[s].kind = request[s].kind
                                /\ request'[s].user = request[s].user
                                /\ request'[s].next = request[s].next
                                /\ request'[s].before = request[s].before
                                /\ request'[s].token = request[s].token
          BY <2>2, RequestMoves
      <2>6. AddressTypes'
          BY <2>2, <2>3, <2>5 DEF AddressTypes
      <2>7. RequestsFit' /\ WritesProven'
          BY <2>1, <2>2, <2>5 DEF RequestsFit, WritesProven, q
      <2>8. AddressWasConfirmed'
          BY <2>2 DEF AddressWasConfirmed, IsDirectory
      <2>9. TokensNameOneChange'
          BY <2>1, <2>2, <2>3, <2>4, <2>5 DEF TokensNameOneChange, Asking, q
      <2> QED BY <2>6, <2>7, <2>8, <2>9
  <1>3. ASSUME NEW r \in Slots, Withdraw(r) \/ AskRecorded(r) \/ Supersede(r) PROVE AddressInv'
      <2>1. /\ request' = [request EXCEPT ![r] = NoRequest]
            /\ \/ UNCHANGED confirmation
               \/ DeleteConfirmation(request[r].user)
            /\ UNCHANGED <<address, mailed, tokens, proven>>
          BY <1>3 DEF Withdraw, AskRecorded, Supersede
      <2>2. NoChange \in Confirmations /\ NoChange.token = 0
          BY DEF NoChange, Confirmations, LocalSources
      <2>3. confirmation' \in [Accounts -> Confirmations]
          BY <2>1, <2>2 DEF DeleteConfirmation, AddressTypes
      <2>4. \A u \in Accounts : confirmation'[u] = confirmation[u] \/ confirmation'[u] = NoChange
          BY <2>1 DEF DeleteConfirmation, AddressTypes
      <2> QED BY <2>1, <2>2, <2>3, <2>4, EndKeeps
  <1>4. ASSUME NEW r \in Slots, SetLocalAudited(r) \/ SetRecorded(r) PROVE AddressInv'
      <2> DEFINE q == request[r]
      <2>1. /\ q \in AddressRequests /\ q.kind = "set" /\ q.pc # "idle" /\ q.user \in Accounts \ DirectoryBacked
            /\ q.before.source \in LocalSources
          BY <1>4 DEF AddressTypes, SetLocalAudited, SetRecorded, RequestsFit
      <2>2. PICK pc \in {"audit", "done"} : request' = [request EXCEPT ![r].pc = pc]
          BY <1>4 DEF SetLocalAudited, SetRecorded
      <2>3. /\ address' = address \/ address' = [address EXCEPT ![q.user] = q.next]
            /\ UNCHANGED <<confirmation, mailed, tokens, proven>>
          BY <1>4 DEF SetLocalAudited, SetRecorded, SetLocal
      <2>4. q.next \in StoredAddress(LocalSources)
          BY <2>1 DEF AddressRequests
      <2>5. q.next.source \in LocalSources /\ q.next \in StoredAddress(LocalSources \cup {"directory"})
          BY <2>4 DEF StoredAddress
      <2> HIDE DEF q
      <2>6. /\ request' \in [Slots -> AddressRequests]
            /\ \A s \in Slots : /\ request'[s].pc = IF s = r THEN pc ELSE request[s].pc
                                /\ request'[s].kind = request[s].kind
                                /\ request'[s].user = request[s].user
                                /\ request'[s].next = request[s].next
                                /\ request'[s].before = request[s].before
                                /\ request'[s].token = request[s].token
          <3>1. \A x \in AddressRequests :
                   /\ [x EXCEPT !.pc = pc] \in AddressRequests
                   /\ [x EXCEPT !.pc = pc].pc = pc /\ [x EXCEPT !.pc = pc].kind = x.kind
                   /\ [x EXCEPT !.pc = pc].user = x.user /\ [x EXCEPT !.pc = pc].next = x.next
                   /\ [x EXCEPT !.pc = pc].before = x.before /\ [x EXCEPT !.pc = pc].token = x.token
              BY DEF AddressRequests
          <3>2. request \in [Slots -> AddressRequests]
              BY DEF AddressTypes
          <3>3. request' = [request EXCEPT ![r] = [request[r] EXCEPT !.pc = pc]]
              BY <2>2, <3>2
          <3>4. PICK y \in AddressRequests :
                   /\ request' = [request EXCEPT ![r] = y]
                   /\ y.pc = pc /\ y.kind = request[r].kind /\ y.user = request[r].user
                   /\ y.next = request[r].next /\ y.before = request[r].before /\ y.token = request[r].token
              BY <3>1, <3>2, <3>3
          <3> QED BY <3>2, <3>4
      <2>7. AddressTypes'
          BY <2>3, <2>5, <2>6 DEF AddressTypes
      <2>8. RequestsFit'
          BY <2>1, <2>2, <2>6 DEF RequestsFit, q
      <2>9. WritesProven'
          BY <2>1, <2>3, <2>6 DEF WritesProven, q
      <2>10. TokensNameOneChange'
          BY <2>1, <2>3, <2>6 DEF TokensNameOneChange, Asking, q
      <2>11. AddressWasConfirmed'
          <3>1. q.next.source = "self" => <<q.user, q.next.addr>> \in proven
              BY <2>1 DEF WritesProven, q
          <3>2. \A u \in Accounts : address'[u] = address[u] \/ (u = q.user /\ address'[u] = q.next)
              BY <2>3 DEF AddressTypes
          <3> QED BY <2>1, <2>3, <2>5, <3>1, <3>2 DEF AddressWasConfirmed, IsDirectory, LocalSources
      <2> QED BY <2>7, <2>8, <2>9, <2>10, <2>11
  <1>5. ASSUME NEW r \in Slots, SetUnrecorded(r) PROVE AddressInv'
      <2> DEFINE q == request[r]
                 ended == [request EXCEPT ![r] = NoRequest]
                 undone == SetLocal(q.user, q.before)
      <2>1. /\ q \in AddressRequests /\ q.pc # "idle" /\ q.user \in Accounts \ DirectoryBacked
            /\ q.before.source \in LocalSources
          BY <1>5 DEF AddressTypes, SetUnrecorded, RequestsFit
      <2>2. /\ request' = ended /\ address' = undone
            /\ UNCHANGED <<confirmation, mailed, tokens, proven>>
          BY <1>5 DEF SetUnrecorded, SetReverted
      <2>3. q.before \in StoredAddress(LocalSources \cup {"directory"})
          BY <2>1 DEF AddressRequests
      <2>4. /\ undone = [address EXCEPT ![q.user] = q.before]
          BY <2>1 DEF SetLocal, IsDirectory
      <2>5. q.before.source = "self" => <<q.user, q.before.addr>> \in proven
          BY <2>1 DEF WritesProven
      <2> HIDE DEF q, undone
      <2>6. \A s \in Slots : ended[s] = request[s] \/ ended[s] = NoRequest
          BY DEF AddressTypes
      <2>7. NoRequest.pc = "idle" /\ NoRequest \in AddressRequests
          BY DEF NoRequest, AddressRequests, Unset, StoredAddress, LocalSources
      <2>8. AddressTypes'
          BY <2>2, <2>3, <2>4, <2>7 DEF AddressTypes
      <2>9. RequestsFit' /\ WritesProven'
          BY <2>2, <2>6, <2>7 DEF RequestsFit, WritesProven
      <2>10. TokensNameOneChange'
          BY <2>2, <2>6, <2>7 DEF TokensNameOneChange, Asking
      <2>11. AddressWasConfirmed'
          <3>1. \A u \in Accounts : undone[u] = address[u] \/ (u = q.user /\ undone[u] = q.before)
              BY <2>4 DEF AddressTypes
          <3> QED BY <2>1, <2>2, <2>5, <3>1 DEF AddressWasConfirmed, IsDirectory, LocalSources
      <2> QED BY <2>8, <2>9, <2>10, <2>11
  <1>6. ASSUME DeleteExpiredConfirmations PROVE AddressInv'
      <2>1. NoChange \in Confirmations /\ NoChange.token = 0
          BY DEF NoChange, Confirmations, LocalSources
      <2>2. confirmation' \in [Accounts -> Confirmations]
          BY <1>6, <2>1 DEF DeleteExpiredConfirmations, AddressTypes
      <2>3. \A u \in Accounts : confirmation'[u] = confirmation[u] \/ confirmation'[u] = NoChange
          BY <1>6 DEF DeleteExpiredConfirmations
      <2> QED BY <1>6, <2>1, <2>2, <2>3, EndKeeps DEF DeleteExpiredConfirmations
  <1> QED BY <1>1, <1>2, <1>3, <1>4, <1>5, <1>6 DEF AddressSteps

\* Time moves no token to another account, and the directory only writes the
\* accounts that are its own.
LEMMA TimeKeepsAddresses == AddressInv /\ TimeAndSignIns => AddressInv'
  <1> SUFFICES ASSUME AddressInv, NEW u \in Accounts,
                      CooldownEnds(u) \/ LinkExpires(u) \/ \E a \in Addrs \cup {NoAddr} : RecordDirectoryEmail(u, a)
               PROVE  AddressInv'
      BY DEF TimeAndSignIns
  <1> USE DEF AddressInv
  <1>1. CASE CooldownEnds(u) \/ LinkExpires(u)
      <2>a. confirmation \in [Accounts -> Confirmations]
          BY DEF AddressTypes
      <2>b. \A c \in Confirmations :
               /\ [c EXCEPT !.recent = FALSE] \in Confirmations /\ [c EXCEPT !.expired = TRUE] \in Confirmations
               /\ [c EXCEPT !.recent = FALSE].token = c.token /\ [c EXCEPT !.recent = FALSE].addr = c.addr
               /\ [c EXCEPT !.expired = TRUE].token = c.token /\ [c EXCEPT !.expired = TRUE].addr = c.addr
          BY DEF Confirmations
      <2>c. \/ confirmation' = [confirmation EXCEPT ![u] = [confirmation[u] EXCEPT !.recent = FALSE]]
            \/ confirmation' = [confirmation EXCEPT ![u] = [confirmation[u] EXCEPT !.expired = TRUE]]
          BY <1>1, <2>a DEF CooldownEnds, LinkExpires
      <2>d. PICK y \in Confirmations : /\ confirmation' = [confirmation EXCEPT ![u] = y]
                                       /\ y.token = confirmation[u].token /\ y.addr = confirmation[u].addr
          BY <2>a, <2>b, <2>c
      <2>1. confirmation' \in [Accounts -> Confirmations]
          BY <2>a, <2>d
      <2>2. \A x \in Accounts : /\ confirmation'[x].token = confirmation[x].token
                                /\ confirmation'[x].addr = confirmation[x].addr
          BY <2>a, <2>d
      <2> QED BY <1>1, <2>1, <2>2, EndKeeps DEF CooldownEnds, LinkExpires
  <1>2. ASSUME NEW a \in Addrs \cup {NoAddr}, RecordDirectoryEmail(u, a)
        PROVE  AddressInv'
      <2>1. AddressTypes'
          BY <1>2 DEF AddressTypes, RecordDirectoryEmail, Unset, StoredAddress, LocalSources
      <2>2. RequestsFit' /\ WritesProven' /\ TokensNameOneChange'
          BY <1>2 DEF RecordDirectoryEmail, RequestsFit, WritesProven, TokensNameOneChange, Asking
      <2>3. AddressWasConfirmed'
          BY <1>2 DEF AddressTypes, RecordDirectoryEmail, Unset, AddressWasConfirmed, IsDirectory, StoredAddress
      <2> QED BY <2>1, <2>2, <2>3
  <1> QED BY <1>1, <1>2

\* AddressInv holds at every step of the addresses.
THEOREM AddressesInvariance == AddressesSpec => []AddressInv
  <1>1. AddressInv /\ [AddressesNext]_addressVars => AddressInv'
      <2> SUFFICES ASSUME AddressInv, UNCHANGED addressVars PROVE AddressInv'
          BY CallsKeepAddresses, StepsKeepAddresses, TimeKeepsAddresses DEF AddressesNext
      <2>1. UNCHANGED <<address, confirmation, mailed, request, tokens, proven>>
          BY DEF addressVars
      <2>2. AddressTypes'
          BY <2>1 DEF AddressInv, AddressTypes
      <2>3. RequestsFit' /\ WritesProven'
          BY <2>1 DEF AddressInv, RequestsFit, WritesProven
      <2>4. TokensNameOneChange'
          BY <2>1 DEF AddressInv, TokensNameOneChange, Asking
      <2>5. AddressWasConfirmed'
          BY <2>1 DEF AddressInv, AddressWasConfirmed, IsDirectory
      <2> QED BY <2>2, <2>3, <2>4, <2>5 DEF AddressInv
  <1> QED BY AddressesInitInv, <1>1, PTL DEF AddressesSpec

\* The tables and requests keep their types.
THEOREM AddressesTypeCorrect == AddressesSpec => []AddressTypes
  BY AddressesInvariance, PTL DEF AddressInv

\* An address marked as confirmed by its owner was: for any number of accounts,
\* addresses, links and requests under way, no replaced, withdrawn or undone
\* change leaves a local account with an address whose link its owner did not
\* open, nor an AD-backed one with an address not the directory's
\* (ConfirmAddress, lookup, setLocalAudited, SetDirectory).
THEOREM AddressesWereConfirmed == AddressesSpec => []AddressWasConfirmed
  BY AddressesInvariance, PTL DEF AddressInv

-----------------------------------------------------------------------------
(* The inbox.                                                              *)

\* A dedupe key has at most one open alert.
OpenOnce ==
    \A a, b \in AlertIds :
        IsOpen(a) /\ IsOpen(b) /\ alertRow[a].key = alertRow[b].key /\ alertRow[a].key # NoKey => a = b

\* The open alert of a key whose condition cleared is one that was reopened.
CalmIsQuiet == \A a \in AlertIds : IsOpen(a) /\ alertRow[a].key \in calm => a \in reopened

\* While a producer is about to insert, its condition does not count as cleared.
RaisesAreCurrent == \A p \in Producers : raising[p].pc \in {"insert", "again"} => raising[p].key \notin calm

\* Nobody has read an alert that was not raised yet.
UnraisedUnread == \A a \in AlertIds : alertRow[a].state = "none" => \A u \in Users : ~userState[u][a].read

AlertInv == AlertTypes /\ OpenOnce /\ CalmIsQuiet /\ RaisesAreCurrent /\ UnraisedUnread /\ ReadWasSeen

\* The idle producer and the idle actor, and an empty row, have their types.
LEMMA IdleTypes ==
    /\ NotRaising \in Raises /\ NotRaising.pc = "idle"
    /\ NotActing \in Actions
    /\ NoRow \in AlertRows /\ NoRow.state = "none" /\ NoRow.sev = 1
    /\ [NoRow EXCEPT !.state = "gone"] \in AlertRows
  <1>0. 1 \in Severities /\ 1 \in AlertIds /\ {} \in SUBSET UNION AudienceSets
      BY AlertsAssumption DEF Severities, AlertIds
  <1>1. NotRaising \in Raises /\ NotRaising.pc = "idle"
      BY <1>0 DEF NotRaising, Raises
  <1>2. NotActing \in Actions
      BY DEF NotActing, Actions, Kinds
  <1>3. NoRow \in AlertRows /\ NoRow.state = "none" /\ NoRow.sev = 1
      BY <1>0 DEF NoRow, AlertRows, States
  <1>4. [NoRow EXCEPT !.state = "gone"] \in AlertRows
      BY <1>3 DEF AlertRows, States
  <1> QED BY <1>1, <1>2, <1>3, <1>4

\* At first nothing was raised.
LEMMA AlertsInitInv == Init => AlertInv
  <1> SUFFICES ASSUME Init PROVE AlertInv
      OBVIOUS
  <1> USE DEF Init
  <1>1. AlertTypes
      BY IdleTypes DEF AlertTypes, Fresh
  <1>2. OpenOnce /\ CalmIsQuiet
      BY IdleTypes DEF OpenOnce, CalmIsQuiet, IsOpen
  <1>3. RaisesAreCurrent /\ UnraisedUnread /\ ReadWasSeen
      BY IdleTypes DEF RaisesAreCurrent, UnraisedUnread, ReadWasSeen, Fresh
  <1> QED BY <1>1, <1>2, <1>3 DEF AlertInv

\* Steps that leave rows and marks alone, and call no condition cleared.
LEMMA QuietStep ==
    ASSUME AlertInv, UNCHANGED <<alertRow, userState, reopened, seen, crossed>>, calm' \subseteq calm,
           raising' \in [Producers -> Raises], acting' \in [Actors -> Actions],
           \A p \in Producers : raising'[p].pc \in {"insert", "again"} => raising'[p].key \notin calm'
    PROVE  AlertInv'
  <1>1. AlertTypes'
      BY DEF AlertInv, AlertTypes
  <1>2. OpenOnce' /\ CalmIsQuiet'
      BY DEF AlertInv, OpenOnce, CalmIsQuiet, IsOpen
  <1>3. RaisesAreCurrent' /\ UnraisedUnread' /\ ReadWasSeen'
      BY DEF AlertInv, RaisesAreCurrent, UnraisedUnread, ReadWasSeen
  <1> QED BY <1>1, <1>2, <1>3 DEF AlertInv

\* An update of the open alert of a key: it stays open under its key, and a
\* worse severity makes it unread.
LEMMA UpdateStep ==
    ASSUME AlertInv, NEW p \in Producers, NEW a \in AlertIds, NEW s \in Severities,
           NEW auds \in SUBSET UNION AudienceSets,
           UpdateOpen(p, a, s, auds), calm' \subseteq calm, UNCHANGED <<acting, reopened, seen>>
    PROVE  AlertInv'
  <1> DEFINE row == [alertRow[a] EXCEPT !.sev = s, !.aud = @ \cup auds, !.old = FALSE]
             told == [raising[p] EXCEPT !.pc = "notify", !.alert = a, !.sev = s]
  <1>1. alertRow[a] \in AlertRows /\ raising[p] \in Raises
      BY DEF AlertInv, AlertTypes
  <1>2. /\ row \in AlertRows /\ row.state = alertRow[a].state /\ row.key = alertRow[a].key /\ row.sev = s
        /\ told \in Raises /\ told.pc = "notify"
      BY <1>1 DEF AlertRows, Raises
  <1>3. alertRow' = [alertRow EXCEPT ![a] = row]
      BY <1>1 DEF UpdateOpen, AlertInv, AlertTypes
  <1>4. \E r \in {told, NotRaising} : raising' = [raising EXCEPT ![p] = r]
      BY DEF UpdateOpen, RaiseReturns
  <1>5. \A b \in AlertIds : alertRow'[b] = IF b = a THEN row ELSE alertRow[b]
      BY <1>3 DEF AlertInv, AlertTypes
  <1>6. \A q \in Producers : raising'[q] = raising[q] \/ raising'[q] \in {told, NotRaising}
      BY <1>4 DEF AlertInv, AlertTypes
  <1>7. /\ userState' \in [Users -> [AlertIds -> [read : BOOLEAN, dismissed : BOOLEAN]]]
        /\ \A u \in Users, b \in AlertIds :
             /\ userState'[u][b].read => userState[u][b].read
             /\ s > alertRow[a].sev => ~userState'[u][a].read
      <2>0. userState \in [Users -> [AlertIds -> [read : BOOLEAN, dismissed : BOOLEAN]]]
          BY DEF AlertInv, AlertTypes
      <2>1. CASE s > alertRow[a].sev
          <3>1. userState' = [u \in Users |-> [userState[u] EXCEPT ![a].read = FALSE]]
              BY <2>1 DEF UpdateOpen
          <3>2. \A u \in Users : /\ userState'[u] = [userState[u] EXCEPT ![a].read = FALSE]
                                 /\ userState[u] \in [AlertIds -> [read : BOOLEAN, dismissed : BOOLEAN]]
              BY <2>0, <3>1
          <3>3. \A st \in [AlertIds -> [read : BOOLEAN, dismissed : BOOLEAN]] :
                  LET new == [st EXCEPT ![a].read = FALSE] IN
                  /\ new \in [AlertIds -> [read : BOOLEAN, dismissed : BOOLEAN]]
                  /\ ~new[a].read
                  /\ \A b \in AlertIds : new[b].read => st[b].read
              OBVIOUS
          <3>4. userState' \in [Users -> [AlertIds -> [read : BOOLEAN, dismissed : BOOLEAN]]]
              BY <3>1, <3>2, <3>3
          <3> QED BY <3>2, <3>3, <3>4
      <2>2. CASE ~(s > alertRow[a].sev)
          BY <2>0, <2>2 DEF UpdateOpen
      <2> QED BY <2>1, <2>2
  <1> HIDE DEF row, told
  <1>8. AlertTypes'
      <2>1. crossed' \subseteq crossed
          BY DEF UpdateOpen
      <2> QED BY <1>2, <1>3, <1>4, <1>7, <2>1, IdleTypes DEF AlertInv, AlertTypes
  <1>9. OpenOnce' /\ CalmIsQuiet'
      BY <1>2, <1>5 DEF AlertInv, OpenOnce, CalmIsQuiet, IsOpen
  <1>10. RaisesAreCurrent'
      BY <1>2, <1>6, IdleTypes DEF AlertInv, RaisesAreCurrent
  <1>11. UnraisedUnread'
      BY <1>2, <1>5, <1>7 DEF AlertInv, UnraisedUnread
  <1>12. ReadWasSeen'
      <2> SUFFICES ASSUME NEW u \in Users, NEW b \in AlertIds, userState'[u][b].read
                   PROVE  seen[u][b] >= alertRow'[b].sev \/ <<u, b>> \in crossed'
          BY DEF ReadWasSeen
      <2>1. seen[u][b] \in Nat /\ alertRow[b].sev \in Nat /\ s \in Nat
          BY DEF AlertInv, AlertTypes, AlertRows, Severities, Actors
      <2>2. seen[u][b] >= alertRow[b].sev \/ <<u, b>> \in crossed
          BY <1>7 DEF AlertInv, ReadWasSeen
      <2>3. CASE b = a
          <3>1. alertRow'[b].sev = s /\ ~(s > alertRow[b].sev)
              BY <1>2, <1>5, <1>7, <2>3
          <3>2. crossed' = crossed
              BY <2>3, <3>1 DEF UpdateOpen
          <3> QED BY <2>1, <2>2, <3>1, <3>2
      <2>4. CASE b # a
          <3>1. <<u, b>> \in crossed => <<u, b>> \in crossed'
              BY <2>4 DEF UpdateOpen
          <3> QED BY <1>5, <2>2, <2>4, <3>1
      <2> QED BY <2>3, <2>4
  <1> QED BY <1>8, <1>9, <1>10, <1>11, <1>12 DEF AlertInv

\* A new alert: its key had none open, and nobody has read it.
LEMMA InsertStep ==
    ASSUME AlertInv, NEW p \in Producers, RaiseInsert(p)
    PROVE  AlertInv'
  <1>1. PICK a \in FreeIds : InsertRow(p, a)
      BY DEF RaiseInsert
  <1> DEFINE r == raising[p]
             row == [state |-> "open", key |-> r.key, sev |-> r.sev, aud |-> r.aud, old |-> FALSE]
             told == [r EXCEPT !.pc = "notify", !.alert = a, !.sev = r.sev]
  <1>2. a \in AlertIds /\ alertRow[a].state = "none" /\ r \in Raises /\ r.pc = "insert"
      BY DEF FreeIds, RaiseInsert, AlertInv, AlertTypes
  <1>3. /\ row \in AlertRows /\ row.state = "open" /\ row.key = r.key
        /\ told \in Raises /\ told.pc = "notify"
      BY <1>2 DEF AlertRows, Raises, States
  <1>4. /\ alertRow' = [alertRow EXCEPT ![a] = row]
        /\ raising' = [raising EXCEPT ![p] = told]
        /\ UNCHANGED <<userState, acting, calm, reopened, seen, crossed>>
      BY <1>1 DEF InsertRow, RaiseReturns, RaiseInsert
  <1>5. \A b \in AlertIds : alertRow'[b] = IF b = a THEN row ELSE alertRow[b]
      BY <1>4 DEF AlertInv, AlertTypes
  <1>6. r.key \notin calm
      BY <1>2 DEF AlertInv, RaisesAreCurrent
  <1>7. r.key # NoKey => \A b \in AlertIds : ~(IsOpen(b) /\ alertRow[b].key = r.key)
      BY DEF RaiseInsert, OpenDedupeKeyTaken, OpenFor
  <1>8. \A q \in Producers : raising'[q] = IF q = p THEN told ELSE raising[q]
      BY <1>4 DEF AlertInv, AlertTypes
  <1> HIDE DEF r, row, told
  <1>9. AlertTypes'
      BY <1>3, <1>4 DEF AlertInv, AlertTypes
  <1>10. OpenOnce'
      BY <1>3, <1>5, <1>7 DEF AlertInv, OpenOnce, IsOpen
  <1>11. CalmIsQuiet'
      BY <1>3, <1>4, <1>5, <1>6 DEF AlertInv, CalmIsQuiet, IsOpen
  <1>12. RaisesAreCurrent'
      BY <1>3, <1>4, <1>8 DEF AlertInv, RaisesAreCurrent
  <1>13. UnraisedUnread'
      BY <1>3, <1>4, <1>5 DEF AlertInv, UnraisedUnread
  <1>14. ReadWasSeen'
      BY <1>2, <1>4, <1>5 DEF AlertInv, UnraisedUnread, ReadWasSeen
  <1> QED BY <1>9, <1>10, <1>11, <1>12, <1>13, <1>14 DEF AlertInv

\* Steps that close alerts, drop them or let them age: a row keeps its key and
\* severity or loses them with its marks, and no new key has an open alert.
LEMMA ClosingStep ==
    ASSUME AlertInv, alertRow' \in [AlertIds -> AlertRows],
           userState' \in [Users -> [AlertIds -> [read : BOOLEAN, dismissed : BOOLEAN]]],
           acting' \in [Actors -> Actions],
           UNCHANGED <<raising, reopened, seen, crossed>>, calm' \subseteq Keys,
           \A a \in AlertIds :
               /\ alertRow'[a].state = "open" => /\ alertRow[a].state = "open"
                                                 /\ alertRow'[a].key = alertRow[a].key
                                                 /\ alertRow[a].key \in calm' => alertRow[a].key \in calm
               /\ \A u \in Users : userState'[u][a].read => /\ userState[u][a].read
                                                            /\ alertRow'[a].sev = alertRow[a].sev
               /\ alertRow'[a].state = "none" => alertRow[a].state = "none",
           \A p \in Producers : raising[p].pc \in {"insert", "again"} /\ raising[p].key \in calm' =>
               raising[p].key \in calm
    PROVE  AlertInv'
  <1>1. AlertTypes'
      BY DEF AlertInv, AlertTypes
  <1>2. OpenOnce' /\ CalmIsQuiet'
      BY DEF AlertInv, OpenOnce, CalmIsQuiet, IsOpen
  <1>3. RaisesAreCurrent' /\ UnraisedUnread' /\ ReadWasSeen'
      BY DEF AlertInv, RaisesAreCurrent, UnraisedUnread, ReadWasSeen
  <1> QED BY <1>1, <1>2, <1>3 DEF AlertInv

\* Closing the open alerts of a set of keys.
LEMMA ResolveStep ==
    ASSUME AlertInv, NEW ks \in SUBSET Keys, CloseAll(UNION {OpenFor(k) : k \in ks}),
           calm' = calm \cup {k \in ks : NotInFlight(k)},
           UNCHANGED <<userState, raising, acting, reopened, seen, crossed>>
    PROVE  AlertInv'
  <1> DEFINE closing == UNION {OpenFor(k) : k \in ks}
  <1>0. alertRow \in [AlertIds -> AlertRows]
      BY DEF AlertInv, AlertTypes
  <1>1. \A a \in AlertIds : a \in closing <=> alertRow[a].state = "open" /\ alertRow[a].key \in ks
      BY DEF OpenFor, IsOpen
  <1>2. alertRow' = [a \in AlertIds |->
            IF a \in closing THEN [alertRow[a] EXCEPT !.state = "cleared"] ELSE alertRow[a]]
      BY DEF CloseAll
  <1> HIDE DEF closing
  <1>3. \A row \in AlertRows : /\ [row EXCEPT !.state = "cleared"] \in AlertRows
                               /\ [row EXCEPT !.state = "cleared"].state = "cleared"
                               /\ [row EXCEPT !.state = "cleared"].sev = row.sev
      BY DEF AlertRows, States
  <1>4. alertRow' \in [AlertIds -> AlertRows]
      BY <1>0, <1>2, <1>3
  <1>5. \A a \in AlertIds :
          /\ alertRow'[a].state = "open" => /\ alertRow[a].state = "open"
                                            /\ alertRow'[a].key = alertRow[a].key
                                            /\ alertRow[a].key \notin ks
          /\ alertRow'[a].sev = alertRow[a].sev
          /\ alertRow'[a].state = "none" => alertRow[a].state = "none"
      <2> SUFFICES ASSUME NEW a \in AlertIds
                   PROVE  /\ alertRow'[a].state = "open" => /\ alertRow[a].state = "open"
                                                            /\ alertRow'[a].key = alertRow[a].key
                                                            /\ alertRow[a].key \notin ks
                          /\ alertRow'[a].sev = alertRow[a].sev
                          /\ alertRow'[a].state = "none" => alertRow[a].state = "none"
          OBVIOUS
      <2>1. CASE a \in closing
          <3>1. alertRow'[a] = [alertRow[a] EXCEPT !.state = "cleared"]
              BY <1>2, <2>1
          <3> QED BY <1>0, <1>3, <3>1
      <2>2. CASE a \notin closing
          BY <1>1, <1>2, <2>2
      <2> QED BY <2>1, <2>2
  <1>6. \A p \in Producers : raising[p].pc \in {"insert", "again"} /\ raising[p].key \in calm' =>
          raising[p].key \in calm
      BY DEF NotInFlight
  <1>7. /\ userState' \in [Users -> [AlertIds -> [read : BOOLEAN, dismissed : BOOLEAN]]]
        /\ acting' \in [Actors -> Actions]
        /\ calm' \subseteq Keys
      BY DEF AlertInv, AlertTypes
  <1> QED BY <1>4, <1>5, <1>6, <1>7, ClosingStep

\* Producers keep the invariant.
LEMMA ProducersKeep == AlertInv /\ (ProducerCalls \/ RaiseSteps) => AlertInv'
  <1> SUFFICES ASSUME AlertInv, ProducerCalls \/ RaiseSteps PROVE AlertInv'
      OBVIOUS
  <1>0. raising \in [Producers -> Raises] /\ acting \in [Actors -> Actions] /\ calm \subseteq Keys
      BY DEF AlertInv, AlertTypes
  <1>1. ASSUME NEW p \in Producers, NEW k \in Keys \cup {NoKey}, NEW s \in Severities, NEW auds \in AudienceSets,
               Raise(p, k, s, auds)
        PROVE  AlertInv'
      <2> DEFINE begun == [NotRaising EXCEPT !.pc = "insert", !.key = k, !.sev = s, !.aud = auds, !.tries = 1]
      <2>1. begun \in Raises /\ begun.key = k
          BY IdleTypes DEF Raises
      <2>2. raising' = [raising EXCEPT ![p] = begun] /\ calm' = calm \ {k}
            /\ UNCHANGED <<alertRow, userState, acting, reopened, seen, crossed>>
          BY <1>1 DEF Raise
      <2> HIDE DEF begun
      <2>3. raising' \in [Producers -> Raises] /\ acting' \in [Actors -> Actions]
          BY <1>0, <2>1, <2>2
      <2>4. \A q \in Producers : raising'[q].pc \in {"insert", "again"} => raising'[q].key \notin calm'
          BY <1>0, <2>1, <2>2 DEF AlertInv, RaisesAreCurrent
      <2> QED BY <2>2, <2>3, <2>4, QuietStep
  <1>2. ASSUME NEW p \in Producers, NEW k \in Keys \cup {NoKey}, NEW s \in Severities, NEW auds \in AudienceSets,
               RaiseRepeat(p, k, s, auds)
        PROVE  AlertInv'
      <2> PICK a \in OpenFor(k) : UpdateOpen(p, a, s, auds)
          BY <1>2 DEF RaiseRepeat
      <2> a \in AlertIds /\ auds \in SUBSET UNION AudienceSets /\ calm' \subseteq calm
          BY <1>2 DEF OpenFor, RaiseRepeat
      <2> QED BY <1>2, UpdateStep DEF RaiseRepeat
  <1>3. ASSUME NEW k \in Keys, ResolveCondition(k)
        PROVE  AlertInv'
      <2>1. UNION {OpenFor(x) : x \in {k}} = OpenFor(k)
          OBVIOUS
      <2> DEFINE ks == {k}
      <2>2. /\ CloseAll(UNION {OpenFor(x) : x \in ks}) /\ calm' = calm \cup {x \in ks : NotInFlight(x)}
            /\ ks \in SUBSET Keys
            /\ UNCHANGED <<userState, raising, acting, reopened, seen, crossed>>
          BY <1>3, <2>1 DEF ResolveCondition
      <2> HIDE DEF ks
      <2> QED BY <2>2, ResolveStep
  <1>4. ASSUME NEW keep \in SUBSET Keys, ResolveConditionsExcept(keep)
        PROVE  AlertInv'
      BY <1>4, ResolveStep DEF ResolveConditionsExcept
  <1>5. ASSUME NEW p \in Producers, RaiseInsert(p)
        PROVE  AlertInv'
      BY <1>5, InsertStep
  <1>6. ASSUME NEW p \in Producers, NEW pc \in {"again", "insert"}, NEW tries \in Nat,
               raising[p].pc \in {"again", "insert"},
               raising' = [raising EXCEPT ![p].pc = pc, ![p].tries = tries],
               UNCHANGED <<alertRow, userState, acting, calm, reopened, seen, crossed>>
        PROVE  AlertInv'
      <2>a. \A x \in Raises : /\ [x EXCEPT !.pc = pc, !.tries = tries] \in Raises
                              /\ [x EXCEPT !.pc = pc, !.tries = tries].key = x.key
          BY <1>6 DEF Raises
      <2>b. raising' = [raising EXCEPT ![p] = [raising[p] EXCEPT !.pc = pc, !.tries = tries]]
          BY <1>0, <1>6
      <2>c. PICK y \in Raises : raising' = [raising EXCEPT ![p] = y] /\ y.key = raising[p].key
          BY <1>0, <2>a, <2>b
      <2>1. raising' \in [Producers -> Raises]
          BY <1>0, <2>c
      <2>2. \A q \in Producers : raising'[q].key = raising[q].key /\ (q # p => raising'[q] = raising[q])
          BY <1>0, <2>c
      <2>3. calm' = calm /\ \A q \in Producers : raising[q].pc \in {"insert", "again"} => raising[q].key \notin calm
          BY <1>6 DEF AlertInv, RaisesAreCurrent
      <2>4. \A q \in Producers : raising'[q].pc \in {"insert", "again"} => raising'[q].key \notin calm'
          <3> SUFFICES ASSUME NEW q \in Producers, raising'[q].pc \in {"insert", "again"}
                       PROVE  raising[q].pc \in {"insert", "again"}
              BY <2>2, <2>3
          <3>1. CASE q = p
              BY <1>6, <3>1
          <3>2. CASE q # p
              BY <2>2, <3>2
          <3> QED BY <3>1, <3>2
      <2> QED BY <1>0, <1>6, <2>1, <2>4, QuietStep
  <1>7. ASSUME NEW p \in Producers, RaiseRetries(p) \/ RaiseLosesTwice(p) \/ RaiseAgain(p)
        PROVE  AlertInv'
      <2>1. CASE RaiseRetries(p)
          BY <1>6, <2>1 DEF RaiseRetries
      <2>2. CASE RaiseLosesTwice(p)
          <3>1. raising' = [raising EXCEPT ![p] = NotRaising]
              BY <2>2 DEF RaiseLosesTwice
          <3>2. raising' \in [Producers -> Raises]
              BY <1>0, <3>1, IdleTypes
          <3>3. \A q \in Producers : raising'[q].pc \in {"insert", "again"} => raising'[q].key \notin calm
              BY <1>0, <3>1, IdleTypes DEF AlertInv, RaisesAreCurrent
          <3> QED BY <1>0, <2>2, <3>2, <3>3, QuietStep DEF RaiseLosesTwice
      <2>3. CASE RaiseAgain(p)
          <3>1. CASE raising' = [raising EXCEPT ![p].pc = "insert"] /\ UNCHANGED <<alertRow, userState, crossed>>
              <4>1. raising' = [raising EXCEPT ![p].pc = "insert", ![p].tries = raising[p].tries] /\ raising[p].tries \in Nat
                  BY <1>0, <3>1 DEF Raises
              <4> QED BY <1>6, <2>3, <3>1, <4>1 DEF RaiseAgain
          <3>2. ASSUME NEW a \in OpenFor(raising[p].key), UpdateOpen(p, a, raising[p].sev, raising[p].aud)
                PROVE  AlertInv'
              <4> a \in AlertIds /\ raising[p].sev \in Severities /\ raising[p].aud \in SUBSET UNION AudienceSets
                  BY <1>0 DEF OpenFor, Raises
              <4> QED BY <2>3, <3>2, UpdateStep DEF RaiseAgain
          <3> QED BY <2>3, <3>1, <3>2 DEF RaiseAgain
      <2> QED BY <1>7, <2>1, <2>2, <2>3
  <1> QED BY <1>1, <1>2, <1>3, <1>4, <1>5, <1>7 DEF ProducerCalls, RaiseSteps

\* Steps that change marks and sights only: whatever is read was raised, and
\* seen at its severity or marked over an escalation.
LEMMA MarksStep ==
    ASSUME AlertInv, UNCHANGED <<alertRow, raising, calm, reopened>>, acting' \in [Actors -> Actions],
           userState' \in [Users -> [AlertIds -> [read : BOOLEAN, dismissed : BOOLEAN]]],
           seen' \in [Actors -> [AlertIds -> Nat]], crossed' \subseteq Actors \X AlertIds,
           \A u \in Users, a \in AlertIds :
               userState'[u][a].read => /\ alertRow[a].state # "none"
                                        /\ seen'[u][a] >= alertRow[a].sev \/ <<u, a>> \in crossed'
    PROVE  AlertInv'
  <1>1. AlertTypes'
      BY DEF AlertInv, AlertTypes
  <1>2. OpenOnce' /\ CalmIsQuiet'
      BY DEF AlertInv, OpenOnce, CalmIsQuiet, IsOpen
  <1>3. RaisesAreCurrent' /\ UnraisedUnread' /\ ReadWasSeen'
      BY DEF AlertInv, RaisesAreCurrent, UnraisedUnread, ReadWasSeen
  <1> QED BY <1>1, <1>2, <1>3 DEF AlertInv

\* One statement on a person's marks: what it marks read exists, and is noted if
\* it is worse than the person was shown.
LEMMA WriteMarksStep ==
    ASSUME AlertInv, NEW v \in Actors, NEW kind, NEW ids \in SUBSET AlertIds, WriteMarks(v, kind, ids),
           kind = "read" => \A a \in ids : alertRow[a].state # "none",
           UNCHANGED <<alertRow, raising, calm, reopened, seen>>, acting' \in [Actors -> Actions]
    PROVE  AlertInv'
  <1> DEFINE Marks == [read : BOOLEAN, dismissed : BOOLEAN]
             marks == [a \in AlertIds |-> IF a \in ids THEN Mark(userState[v][a], kind) ELSE userState[v][a]]
  <1>0. /\ userState \in [Users -> [AlertIds -> Marks]] /\ seen \in [Actors -> [AlertIds -> Nat]]
        /\ crossed \subseteq Actors \X AlertIds
        /\ \A a \in AlertIds : alertRow[a].sev \in Nat
        /\ Users \subseteq Actors
      BY DEF AlertInv, AlertTypes, AlertRows, Severities, Actors
  <1>1. userState' = [userState EXCEPT ![v] = marks]
      BY DEF WriteMarks
  <1>2. \A m \in Marks : Mark(m, kind) \in Marks /\ (Mark(m, kind).read => kind = "read" \/ m.read)
      BY DEF Mark
  <1>3. v \in Users => marks \in [AlertIds -> Marks]
      <2> HIDE DEF Marks
      <2> QED BY <1>0, <1>2
  <1>4. /\ userState' \in [Users -> [AlertIds -> Marks]]
        /\ \A u \in Users : userState'[u] = IF u = v THEN marks ELSE userState[u]
      <2> HIDE DEF Marks, marks
      <2> QED BY <1>0, <1>1, <1>3
  <1>5. \A u \in Users, b \in AlertIds :
          userState'[u][b].read => userState[u][b].read \/ (u = v /\ kind = "read" /\ b \in ids)
      <2> SUFFICES ASSUME NEW u \in Users, NEW b \in AlertIds, userState'[u][b].read, ~userState[u][b].read
                   PROVE  u = v /\ kind = "read" /\ b \in ids
          OBVIOUS
      <2>1. u = v /\ userState[v][b] \in Marks /\ marks[b].read
          BY <1>0, <1>4
      <2>2. b \in ids /\ Mark(userState[v][b], kind).read
          BY <2>1
      <2> QED BY <1>2, <2>1, <2>2
  <1>6. /\ kind # "read" => crossed' = {x \in crossed : userState'[x[1]][x[2]].read}
        /\ kind = "read" => crossed' = crossed \cup {<<v, a>> : a \in {b \in ids : seen[v][b] < alertRow[b].sev}}
      BY DEF WriteMarks
  <1>7. crossed' \subseteq Actors \X AlertIds
      <2>1. CASE kind = "read"
          BY <1>0, <1>6, <2>1
      <2>2. CASE kind # "read"
          BY <1>0, <1>6, <2>2
      <2> QED BY <2>1, <2>2
  <1>8. ASSUME NEW u \in Users, NEW b \in AlertIds, userState'[u][b].read
        PROVE  alertRow[b].state # "none" /\ (seen[u][b] >= alertRow[b].sev \/ <<u, b>> \in crossed')
      <2>1. CASE userState[u][b].read
          <3>1. alertRow[b].state # "none" /\ (seen[u][b] >= alertRow[b].sev \/ <<u, b>> \in crossed)
              BY <2>1 DEF AlertInv, UnraisedUnread, ReadWasSeen
          <3>2. <<u, b>> \in crossed => <<u, b>> \in crossed'
              BY <1>6, <1>8
          <3> QED BY <3>1, <3>2
      <2>2. CASE ~userState[u][b].read
          <3>1. u = v /\ kind = "read" /\ b \in ids
              BY <1>5, <1>8, <2>2
          <3>2. alertRow[b].state # "none" /\ seen[v][b] \in Nat /\ alertRow[b].sev \in Nat
              BY <1>0, <3>1
          <3>3. seen[v][b] < alertRow[b].sev => <<u, b>> \in crossed'
              BY <1>6, <3>1
          <3> QED BY <3>1, <3>2, <3>3
      <2> QED BY <2>1, <2>2
  <1> HIDE DEF marks
  <1> QED BY <1>0, <1>4, <1>7, <1>8, MarksStep

\* Looking at the inbox.
LEMMA LookStep ==
    ASSUME AlertInv, NEW v \in Actors, HandleAlerts(v)
    PROVE  AlertInv'
  <1> DEFINE sights == [a \in AlertIds |-> IF FindVisible(v, a) THEN alertRow[a].sev ELSE seen[v][a]]
  <1>0. /\ seen \in [Actors -> [AlertIds -> Nat]] /\ Users \subseteq Actors
        /\ \A a \in AlertIds : alertRow[a].sev \in Nat
        /\ crossed \subseteq Actors \X AlertIds /\ acting \in [Actors -> Actions]
        /\ userState \in [Users -> [AlertIds -> [read : BOOLEAN, dismissed : BOOLEAN]]]
      BY DEF AlertInv, AlertTypes, AlertRows, Severities, Actors
  <1>1. seen' = [seen EXCEPT ![v] = sights]
        /\ UNCHANGED <<alertRow, userState, raising, acting, calm, reopened, crossed>>
      BY DEF HandleAlerts
  <1>2. sights \in [AlertIds -> Nat] /\ \A a \in AlertIds : sights[a] \in {seen[v][a], alertRow[a].sev}
      BY <1>0
  <1> HIDE DEF sights
  <1>3. seen' \in [Actors -> [AlertIds -> Nat]] /\ \A u \in Actors : seen'[u] = IF u = v THEN sights ELSE seen[u]
      BY <1>0, <1>1, <1>2
  <1>4. ASSUME NEW u \in Users, NEW a \in AlertIds, userState[u][a].read
        PROVE  alertRow[a].state # "none" /\ (seen'[u][a] >= alertRow[a].sev \/ <<u, a>> \in crossed)
      <2>1. alertRow[a].state # "none" /\ (seen[u][a] >= alertRow[a].sev \/ <<u, a>> \in crossed)
          BY <1>4 DEF AlertInv, UnraisedUnread, ReadWasSeen
      <2>2. seen'[u][a] \in {seen[u][a], alertRow[a].sev}
          BY <1>0, <1>2, <1>3
      <2> QED BY <1>0, <2>1, <2>2
  <1> QED BY <1>0, <1>1, <1>3, <1>4, MarksStep

\* Marking everything unread as read.
LEMMA MarkAllReadStep ==
    ASSUME AlertInv, NEW u \in Actors, MarkAllRead(u)
    PROVE  AlertInv'
  <1> DEFINE ids == UnreadAlerts(u)
             audit == [acting[u] EXCEPT !.pc = "audit", !.ids = ids]
  <1>1. ids \in SUBSET AlertIds /\ \A a \in ids : alertRow[a].state # "none"
      BY DEF UnreadAlerts, FindVisible, Stored
  <1>2. acting \in [Actors -> Actions] /\ acting[u] \in Actions
      BY DEF AlertInv, AlertTypes
  <1>3. audit \in Actions
      BY <1>1, <1>2 DEF Actions
  <1>4. /\ \E next \in {NotActing, audit} : acting' = [acting EXCEPT ![u] = next]
        /\ WriteMarks(u, "read", ids) /\ UNCHANGED <<alertRow, raising, calm, reopened, seen>>
      BY DEF MarkAllRead
  <1> HIDE DEF ids, audit
  <1>5. acting' \in [Actors -> Actions]
      BY <1>2, <1>3, <1>4, IdleTypes
  <1> QED BY <1>1, <1>4, <1>5, WriteMarksStep

\* Rows change in nothing but an open one being closed or aged by a person or
\* by time.
LEMMA OneRowCloses ==
    ASSUME AlertInv, NEW a \in AlertIds, NEW row \in AlertRows,
           row.key = alertRow[a].key, row.sev = alertRow[a].sev,
           row.state = "open" => alertRow[a].state = "open",
           row.state = "none" => alertRow[a].state = "none",
           alertRow' = [alertRow EXCEPT ![a] = row],
           acting' \in [Actors -> Actions],
           UNCHANGED <<userState, raising, calm, reopened, seen, crossed>>
    PROVE  AlertInv'
  <1>1. /\ alertRow' \in [AlertIds -> AlertRows]
        /\ userState' \in [Users -> [AlertIds -> [read : BOOLEAN, dismissed : BOOLEAN]]]
        /\ calm' \subseteq Keys
      BY DEF AlertInv, AlertTypes
  <1>2. \A b \in AlertIds : alertRow'[b] = IF b = a THEN row ELSE alertRow[b]
      BY DEF AlertInv, AlertTypes
  <1> QED BY <1>1, <1>2, ClosingStep

\* One change of a person's request.
LEMMA ApplyStep ==
    ASSUME AlertInv, NEW v \in Actors, NEW a \in AlertIds, Apply(v, a)
    PROVE  AlertInv'
  <1> DEFINE op == acting[v]
             ids == {b \in {a} : Changes(v, op.kind, b)}
             audit == [op EXCEPT !.pc = "audit"]
  <1>0. acting \in [Actors -> Actions] /\ alertRow \in [AlertIds -> AlertRows] /\ op \in Actions
      BY DEF AlertInv, AlertTypes
  <1>1. audit \in Actions /\ Finished(op) \in Actions /\ NotActing \in Actions
      BY <1>0, IdleTypes DEF Actions, Finished
  <1>2. /\ \E next \in {audit, Finished(op), NotActing} : acting' = [acting EXCEPT ![v] = next]
        /\ UNCHANGED <<raising, calm, reopened, seen>>
      BY DEF Apply
  <1>3. acting' \in [Actors -> Actions]
      <2> HIDE DEF audit, op
      <2> QED BY <1>0, <1>1, <1>2
  <1>4. CASE op.kind = "resolve"
      <2>1. /\ alertRow' = IF IsOpen(a) THEN [alertRow EXCEPT ![a].state = "user"] ELSE alertRow
            /\ UNCHANGED <<userState, crossed>>
          BY <1>4 DEF Apply
      <2>2. CASE IsOpen(a)
          <3> DEFINE row == [alertRow[a] EXCEPT !.state = "user"]
          <3>1. alertRow' = [alertRow EXCEPT ![a] = row]
              BY <1>0, <2>1, <2>2
          <3>2. row \in AlertRows /\ row.key = alertRow[a].key /\ row.sev = alertRow[a].sev /\ row.state = "user"
              BY <1>0 DEF AlertRows, States
          <3> HIDE DEF row
          <3> QED BY <1>2, <1>3, <2>1, <3>1, <3>2, OneRowCloses
      <2>3. CASE ~IsOpen(a)
          <3>1. \A p \in Producers : raising'[p].pc \in {"insert", "again"} => raising'[p].key \notin calm'
              BY <1>2 DEF AlertInv, RaisesAreCurrent
          <3>2. raising' \in [Producers -> Raises]
              BY <1>2 DEF AlertInv, AlertTypes
          <3> QED BY <1>2, <1>3, <2>1, <2>3, <3>1, <3>2, QuietStep
      <2> QED BY <2>2, <2>3
  <1>5. CASE op.kind # "resolve"
      <2>1. WriteMarks(v, op.kind, ids) /\ UNCHANGED alertRow
          BY <1>5 DEF Apply
      <2>2. ids \in SUBSET AlertIds /\ (op.kind = "read" => \A b \in ids : alertRow[b].state # "none")
          BY DEF Changes, Stored
      <2> HIDE DEF ids, op
      <2> QED BY <1>2, <1>3, <2>1, <2>2, WriteMarksStep
  <1> QED BY <1>4, <1>5

\* The undo of an unaudited resolution: the alert is open again only if no other
\* one of its key is, and is then noted as reopened.
LEMMA ReopenStep ==
    ASSUME AlertInv, NEW a \in AlertIds, Reopen(a), acting' \in [Actors -> Actions],
           UNCHANGED <<userState, raising, calm, seen, crossed>>
    PROVE  AlertInv'
  <1>0. alertRow \in [AlertIds -> AlertRows] /\ acting \in [Actors -> Actions] /\ raising \in [Producers -> Raises]
      BY DEF AlertInv, AlertTypes
  <1>1. CASE ~(Stored(a) /\ ~OpenDedupeKeyTaken(alertRow[a].key))
      <2>1. UNCHANGED <<alertRow, reopened>>
          BY <1>1 DEF Reopen
      <2>2. \A p \in Producers : raising'[p].pc \in {"insert", "again"} => raising'[p].key \notin calm'
          BY DEF AlertInv, RaisesAreCurrent
      <2> QED BY <1>0, <2>1, <2>2, QuietStep
  <1>2. CASE Stored(a) /\ ~OpenDedupeKeyTaken(alertRow[a].key)
      <2> DEFINE row == [alertRow[a] EXCEPT !.state = "open"]
      <2>1. alertRow' = [alertRow EXCEPT ![a] = row] /\ reopened' = reopened \cup {a}
          BY <1>0, <1>2 DEF Reopen
      <2>2. row \in AlertRows /\ row.key = alertRow[a].key /\ row.sev = alertRow[a].sev /\ row.state = "open"
          BY <1>0 DEF AlertRows, States
      <2>3. alertRow[a].state # "none"
          BY <1>2 DEF Stored
      <2>4. alertRow[a].key # NoKey => \A b \in AlertIds : ~(IsOpen(b) /\ alertRow[b].key = alertRow[a].key)
          BY <1>2 DEF OpenDedupeKeyTaken, OpenFor
      <2> HIDE DEF row
      <2>5. \A b \in AlertIds : alertRow'[b] = IF b = a THEN row ELSE alertRow[b]
          BY <1>0, <2>1
      <2>6. AlertTypes'
          BY <2>1, <2>2 DEF AlertInv, AlertTypes
      <2>7. OpenOnce' /\ CalmIsQuiet'
          BY <2>1, <2>2, <2>4, <2>5 DEF AlertInv, OpenOnce, CalmIsQuiet, IsOpen
      <2>8. RaisesAreCurrent' /\ UnraisedUnread' /\ ReadWasSeen'
          BY <2>2, <2>3, <2>5 DEF AlertInv, RaisesAreCurrent, UnraisedUnread, ReadWasSeen
      <2> QED BY <2>6, <2>7, <2>8 DEF AlertInv
  <1> QED BY <1>1, <1>2

\* A request moves on to its next undo, or ends.
LEMMA UndoneTypes ==
    ASSUME AlertInv, NEW v \in Actors, NEW a \in AlertIds, Undone(v, a)
    PROVE  acting' \in [Actors -> Actions]
  <1> DEFINE rest == [acting[v] EXCEPT !.ids = @ \ {a}]
  <1>1. acting \in [Actors -> Actions] /\ acting[v] \in Actions
      BY DEF AlertInv, AlertTypes
  <1>2. rest \in Actions
      BY <1>1 DEF Actions
  <1>3. acting' = [acting EXCEPT ![v] = IF acting[v].ids = {a} THEN NotActing ELSE rest]
      BY DEF Undone
  <1> HIDE DEF rest
  <1> QED BY <1>1, <1>2, <1>3, IdleTypes

\* The undo of an unaudited change.
LEMMA RevertStep ==
    ASSUME AlertInv, NEW v \in Actors, NEW a \in AlertIds, Revert(v, a)
    PROVE  AlertInv'
  <1> DEFINE kind == acting[v].kind
             ids == {b \in {a} : Stored(b)}
  <1>1. acting' \in [Actors -> Actions] /\ UNCHANGED <<raising, calm, seen>>
      BY UndoneTypes DEF Revert
  <1>2. CASE kind = "resolve"
      <2>1. Reopen(a) /\ UNCHANGED <<userState, crossed>>
          BY <1>2 DEF Revert
      <2> QED BY <1>1, <2>1, ReopenStep
  <1>3. CASE kind # "resolve"
      <2>1. WriteMarks(v, Opposite(kind), ids) /\ UNCHANGED <<alertRow, reopened>>
          BY <1>3 DEF Revert
      <2>2. ids \in SUBSET AlertIds /\ \A b \in ids : alertRow[b].state # "none"
          BY DEF Stored
      <2> HIDE DEF kind, ids
      <2> QED BY <1>1, <2>1, <2>2, WriteMarksStep
  <1> QED BY <1>2, <1>3

\* People's requests keep the invariant: those that only begin, look up, or
\* record change no row and no mark.
LEMMA PeopleKeep == AlertInv /\ (Requests \/ RequestSteps) => AlertInv'
  <1> SUFFICES ASSUME AlertInv, Requests \/ RequestSteps PROVE AlertInv'
      OBVIOUS
  <1>0. acting \in [Actors -> Actions] /\ raising \in [Producers -> Raises]
      BY DEF AlertInv, AlertTypes
  <1>1. ASSUME NEW v \in Actors, NEW op \in Actions, acting' = [acting EXCEPT ![v] = op],
               UNCHANGED <<alertRow, userState, raising, calm, reopened, seen, crossed>>
        PROVE  AlertInv'
      <2>1. \A p \in Producers : raising'[p].pc \in {"insert", "again"} => raising'[p].key \notin calm'
          BY <1>1 DEF AlertInv, RaisesAreCurrent
      <2> QED BY <1>0, <1>1, <2>1, QuietStep
  <1>2. ASSUME NEW v \in Actors, NEW kind \in Kinds, NEW pc \in {"next", "all"}, NEW chosen \in SUBSET AlertIds,
               Asks(v, kind, pc, chosen)
        PROVE  AlertInv'
      <2> DEFINE op == [NotActing EXCEPT !.pc = pc, !.kind = kind, !.todo = chosen]
      <2>1. op \in Actions
          BY IdleTypes DEF Actions
      <2>2. acting' = [acting EXCEPT ![v] = op] /\ UNCHANGED <<alertRow, userState, raising, calm, reopened, seen, crossed>>
          BY <1>2 DEF Asks
      <2> HIDE DEF op
      <2> QED BY <1>1, <2>1, <2>2
  <1>3. ASSUME NEW v \in Actors, NEW kind \in Kinds, NEW a \in AlertIds, HandleAlertAction(v, kind, a)
        PROVE  AlertInv'
      <2> DEFINE chosen == {a}
      <2>1. chosen \in SUBSET AlertIds
          OBVIOUS
      <2>2. Asks(v, kind, "next", chosen)
          BY <1>3 DEF HandleAlertAction
      <2> HIDE DEF chosen
      <2> QED BY <1>2, <2>1, <2>2
  <1>4. ASSUME NEW v \in Actors, NEW kind \in Kinds, NEW chosen \in SUBSET AlertIds,
               HandleAlertsBulk(v, kind, chosen) \/ HandleAlertsMarkAllRead(v)
        PROVE  AlertInv'
      <2>1. CASE HandleAlertsBulk(v, kind, chosen)
          BY <1>2, <2>1 DEF HandleAlertsBulk
      <2>2. CASE HandleAlertsMarkAllRead(v)
          <3>1. Asks(v, "read", "all", {}) /\ "read" \in Kinds /\ {} \in SUBSET AlertIds
              BY <2>2 DEF HandleAlertsMarkAllRead, Kinds
          <3> QED BY <1>2, <3>1
      <2> QED BY <1>4, <2>1, <2>2
  <1>5. ASSUME NEW v \in Actors, NEW a \in AlertIds, Visible(v, a)
        PROVE  AlertInv'
      <2> DEFINE op == acting[v]
                 going == [op EXCEPT !.pc = "apply", !.todo = @ \ {a}, !.ids = {a}]
                 skipped == [op EXCEPT !.todo = @ \ {a}]
      <2>1. op \in Actions
          BY <1>0
      <2>2. going \in Actions /\ skipped \in Actions /\ NotActing \in Actions
          BY <2>1, IdleTypes DEF Actions
      <2>3. /\ UNCHANGED <<alertRow, userState, raising, calm, reopened, seen, crossed>>
            /\ \E next \in {going, skipped, NotActing} : acting' = [acting EXCEPT ![v] = next]
          BY <1>5 DEF Visible
      <2> HIDE DEF op, going, skipped
      <2> QED BY <1>1, <2>2, <2>3
  <1>6. ASSUME NEW v \in Actors, AuditWritten(v) \/ AuditFails(v) \/ RequestFails(v)
        PROVE  AlertInv'
      <2> DEFINE op == acting[v]
                 failed == [op EXCEPT !.pc = "revert"]
      <2>1. op \in Actions
          BY <1>0
      <2>2. failed \in Actions /\ Finished(op) \in Actions /\ NotActing \in Actions
          BY <2>1, IdleTypes DEF Actions, Finished
      <2>3. /\ UNCHANGED <<alertRow, userState, raising, calm, reopened, seen, crossed>>
            /\ \E next \in {failed, Finished(op), NotActing} : acting' = [acting EXCEPT ![v] = next]
          BY <1>0, <1>6 DEF AuditWritten, AuditFails, RequestFails
      <2> HIDE DEF op, failed
      <2> QED BY <1>1, <2>2, <2>3
  <1>7. ASSUME NEW v \in Actors, NEW a \in AlertIds, RevertFails(v, a)
        PROVE  AlertInv'
      <2>1. acting' \in [Actors -> Actions] /\ UNCHANGED <<alertRow, userState, raising, calm, reopened, seen, crossed>>
          BY <1>7, UndoneTypes DEF RevertFails
      <2>2. \A p \in Producers : raising'[p].pc \in {"insert", "again"} => raising'[p].key \notin calm'
          BY <2>1 DEF AlertInv, RaisesAreCurrent
      <2> QED BY <1>0, <2>1, <2>2, QuietStep
  <1>8. ASSUME Requests
        PROVE  AlertInv'
      BY <1>3, <1>4, <1>8 DEF Requests, Kinds
  <1>9. ASSUME RequestSteps
        PROVE  AlertInv'
      BY <1>5, <1>6, <1>7, <1>9, ApplyStep, RevertStep, LookStep, MarkAllReadStep DEF RequestSteps
  <1> QED BY <1>8, <1>9

\* Time and retention.
LEMMA RetentionKeeps == AlertInv /\ (ExpireOnce \/ \E a \in AlertIds : Ages(a)) => AlertInv'
  <1> SUFFICES ASSUME AlertInv, ExpireOnce \/ \E a \in AlertIds : Ages(a) PROVE AlertInv'
      OBVIOUS
  <1> DEFINE Marks == [read : BOOLEAN, dismissed : BOOLEAN]
  <1>0. /\ alertRow \in [AlertIds -> AlertRows] /\ acting \in [Actors -> Actions] /\ calm \subseteq Keys
        /\ userState \in [Users -> [AlertIds -> Marks]]
      BY DEF AlertInv, AlertTypes
  <1>1. ASSUME NEW a \in AlertIds, Ages(a) PROVE AlertInv'
      <2> DEFINE row == [alertRow[a] EXCEPT !.old = TRUE]
      <2>1. row \in AlertRows /\ row.key = alertRow[a].key /\ row.sev = alertRow[a].sev /\ row.state = alertRow[a].state
          BY <1>0 DEF AlertRows
      <2>2. alertRow' = [alertRow EXCEPT ![a] = row] /\ UNCHANGED <<userState, raising, acting, calm, reopened, seen, crossed>>
          BY <1>0, <1>1 DEF Ages
      <2> HIDE DEF row
      <2> QED BY <1>0, <2>1, <2>2, OneRowCloses
  <1>2. ASSUME ExpireOnce PROVE AlertInv'
      <2> DEFINE expired == {a \in AlertIds : Stored(a) /\ alertRow[a].old}
                 gone == [NoRow EXCEPT !.state = "gone"]
      <2>1. /\ alertRow' = [a \in AlertIds |-> IF a \in expired THEN gone ELSE alertRow[a]]
            /\ userState' = [u \in Users |-> [a \in AlertIds |-> IF a \in expired THEN Fresh ELSE userState[u][a]]]
            /\ UNCHANGED <<raising, acting, calm, reopened, seen, crossed>>
          BY <1>2 DEF ExpireOnce
      <2>2. gone \in AlertRows /\ gone.state = "gone"
          BY IdleTypes DEF NoRow
      <2>3. Fresh \in Marks /\ ~Fresh.read
          BY DEF Fresh
      <2> HIDE DEF expired, gone, Marks
      <2>4. alertRow' \in [AlertIds -> AlertRows] /\ userState' \in [Users -> [AlertIds -> Marks]]
          BY <1>0, <2>1, <2>2, <2>3
      <2>5. \A a \in AlertIds :
               /\ alertRow'[a].state = "open" => /\ alertRow[a].state = "open"
                                                 /\ alertRow'[a].key = alertRow[a].key
               /\ \A u \in Users : userState'[u][a].read => /\ userState[u][a].read
                                                            /\ alertRow'[a].sev = alertRow[a].sev
               /\ alertRow'[a].state = "none" => alertRow[a].state = "none"
          BY <2>1, <2>2, <2>3
      <2> QED BY <1>0, <2>1, <2>4, <2>5, ClosingStep DEF Marks
  <1> QED BY <1>1, <1>2

-----------------------------------------------------------------------------
(* The mail queue.                                                         *)

\* How many members of a set come before one of them.
RankIn(S, m) == Cardinality({x \in S : x < m})

\* Every rank below its size is some member's: counting distinguishes them, and
\* there are as many of them as ranks.
LEMMA EveryRankTaken ==
    ASSUME NEW S \in SUBSET Nat, IsFiniteSet(S)
    PROVE  /\ Cardinality(S) \in Nat
           /\ \A k \in 0..(Cardinality(S) - 1) : \E m \in S : RankIn(S, m) = k
  <1> DEFINE n == Cardinality(S)
             T == 0..(n - 1)
             f == [m \in S |-> RankIn(S, m)]
  <1>1. n \in Nat
      BY FS_CardinalityType
  <1>2. ASSUME NEW m \in S
        PROVE  IsFiniteSet({x \in S : x < m}) /\ RankIn(S, m) \in T
      <2> DEFINE B == {x \in S : x < m}
      <2>1. B \in SUBSET S /\ m \notin B
          OBVIOUS
      <2> HIDE DEF B
      <2>2. IsFiniteSet(B) /\ Cardinality(B) <= n /\ (n = Cardinality(B) => S = B)
          BY <2>1, FS_Subset
      <2>3. Cardinality(B) \in Nat
          BY <2>2, FS_CardinalityType
      <2> QED BY <1>1, <2>1, <2>2, <2>3 DEF B, RankIn
  <1>3. ASSUME NEW a \in S, NEW b \in S, a < b
        PROVE  RankIn(S, a) < RankIn(S, b)
      <2> DEFINE A == {x \in S : x < a}
                 B == {x \in S : x < b}
      <2>1. A \in SUBSET B /\ a \in B /\ a \notin A
          <3>1. \A x \in S : x \in Nat
              OBVIOUS
          <3>2. \A x \in S : x < a => x < b
              BY <1>3, <3>1
          <3>3. ~(a < a)
              BY <3>1
          <3> QED BY <1>3, <3>2, <3>3
      <2>2. IsFiniteSet(B)
          BY <1>2
      <2> HIDE DEF A, B
      <2>3. IsFiniteSet(A) /\ Cardinality(A) <= Cardinality(B) /\ Cardinality(A) # Cardinality(B)
          BY <2>1, <2>2, FS_Subset
      <2>4. Cardinality(A) \in Nat /\ Cardinality(B) \in Nat
          BY <2>2, <2>3, FS_CardinalityType
      <2> QED BY <2>3, <2>4 DEF A, B, RankIn
  <1>4. \A a, b \in S : RankIn(S, a) = RankIn(S, b) => a = b
      <2> SUFFICES ASSUME NEW a \in S, NEW b \in S, RankIn(S, a) = RankIn(S, b), a # b PROVE FALSE
          OBVIOUS
      <2>1. RankIn(S, a) \in Int
          <3>1. RankIn(S, a) \in T
              BY <1>2
          <3> HIDE DEF n
          <3> QED BY <1>1, <3>1
      <2>2. a < b \/ b < a
          OBVIOUS
      <2> QED BY <1>3, <2>1, <2>2
  <1> HIDE DEF n
  <1>5. f \in Injection(S, T)
      BY <1>2, <1>4 DEF Injection, IsInjective
  <1>6. IsFiniteSet(T) /\ Cardinality(T) = n
      BY <1>1, FS_Interval
  <1> HIDE DEF T, f
  <1>7. f \in Surjection(S, T)
      BY <1>5, <1>6, FS_Injection DEF n
  <1>8. \A k \in T : \E m \in S : f[m] = k
      BY <1>7 DEF Surjection
  <1> QED BY <1>1, <1>8 DEF n, T, f

\* The messages a pass claims, in order: members of the set, each once.
LEMMA InOrderLists ==
    ASSUME NEW S \in SUBSET MailIds
    PROVE  /\ IsFiniteSet(S)
           /\ InOrder(S) \in Seq(S)
           /\ Len(InOrder(S)) = Cardinality(S)
           /\ \A i, j \in 1..Len(InOrder(S)) : InOrder(S)[i] = InOrder(S)[j] => i = j
  <1>1. IsFiniteSet(S) /\ S \in SUBSET Nat
      <2>1. IsFiniteSet(MailIds) /\ MailIds \subseteq Nat
          <3>1. 1 \in Int /\ MaxMails \in Int
              BY EmailAssumption
          <3> QED BY <3>1, FS_Interval DEF MailIds
      <2> QED BY <2>1, FS_Subset
  <1> DEFINE n == Cardinality(S)
             s == InOrder(S)
  <1>2. n \in Nat /\ \A k \in 0..(n - 1) : \E m \in S : RankIn(S, m) = k
      BY <1>1, EveryRankTaken
  <1>3. s = [i \in 1..n |-> CHOOSE m \in S : RankIn(S, m) = i - 1]
      BY DEF InOrder, RankIn
  <1> HIDE DEF n, s
  <1>4. \A i \in 1..n : s[i] \in S /\ RankIn(S, s[i]) = i - 1
      <2> SUFFICES ASSUME NEW i \in 1..n PROVE s[i] \in S /\ RankIn(S, s[i]) = i - 1
          OBVIOUS
      <2>1. i - 1 \in 0..(n - 1)
          BY <1>2
      <2>2. \E m \in S : RankIn(S, m) = i - 1
          BY <1>2, <2>1
      <2>3. s[i] = CHOOSE m \in S : RankIn(S, m) = i - 1
          BY <1>3
      <2> DEFINE k == i - 1
      <2> HIDE DEF k
      <2>4. \E m \in S : RankIn(S, m) = k
          BY <2>2 DEF k
      <2>5. s[i] = CHOOSE m \in S : RankIn(S, m) = k
          BY <2>3 DEF k
      <2>6. s[i] \in S /\ RankIn(S, s[i]) = k
          BY <2>4, <2>5
      <2> QED BY <2>6 DEF k
  <1>5. s \in [1..n -> S]
      BY <1>3, <1>4
  <1>6. s \in Seq(S) /\ Len(s) = n
      BY <1>2, <1>5
  <1>7. \A i, j \in 1..n : s[i] = s[j] => i = j
      BY <1>2, <1>4
  <1> QED BY <1>1, <1>6, <1>7 DEF n, s

\* The next message id is one that was not used.
LEMMA EnqueuePicks ==
    ASSUME Unused # {}
    PROVE  (CHOOSE x \in Unused : \A y \in Unused : x <= y) \in Unused
  <1>1. Unused \in SUBSET MailIds
      BY DEF Unused
  <1>2. IsFiniteSet(Unused) /\ Unused \in SUBSET Nat
      BY <1>1, InOrderLists, EmailAssumption DEF MailIds
  <1>3. Cardinality(Unused) \in Nat /\ Cardinality(Unused) # 0
      BY <1>2, FS_CardinalityType, FS_EmptySet
  <1>4. PICK x \in Unused : RankIn(Unused, x) = 0
      BY <1>2, <1>3, EveryRankTaken
  <1>5. {y \in Unused : y < x} = {}
      <2> DEFINE B == {y \in Unused : y < x}
      <2>1. IsFiniteSet(B) /\ Cardinality(B) = 0
          BY <1>2, <1>4, FS_Subset DEF RankIn
      <2> HIDE DEF B
      <2>2. B = {}
          BY <2>1, FS_EmptySet
      <2> QED BY <2>2 DEF B
  <1>6. \A y \in Unused : x <= y
      BY <1>2, <1>5
  <1> QED BY <1>6

\* What the worker holds is pending, and in its batch once.
BatchHeld ==
    worker.pc \in {"send", "mark"} =>
        /\ worker.batch # <<>>
        /\ \A i \in 1..Len(worker.batch) : Pending(worker.batch[i])
        /\ \A i, j \in 1..Len(worker.batch) : worker.batch[i] = worker.batch[j] => i = j

\* The message the relay has accepted and whose record is still to be written.
Accepted(m) == worker.pc = "mark" /\ worker.outcome = "accepted" /\ m = Head(worker.batch)

\* Every delivery but one is unknown to the queue, and that one is of a message
\* that left the queue or is about to.
DeliveriesCounted ==
    \A m \in MailIds :
        /\ delivered[m] <= 1 + unsure[m]
        /\ queue[m].status \in {"none", "pending"} /\ ~Accepted(m) => delivered[m] <= unsure[m]

MailInv == QueueTypes /\ BatchHeld /\ DeliveriesCounted

\* The empty row, the resting worker.
LEMMA RestTypes ==
    /\ NoMail \in Mails /\ NoMail.status = "none"
    /\ Resting \in Workers /\ Resting.pc = "idle"
  <1>1. NoMail \in Mails /\ NoMail.status = "none"
      BY DEF NoMail, Mails
  <1>2. Resting \in Workers /\ Resting.pc = "idle"
      <2>1. <<>> \in Seq(MailIds)
          BY EmptySeq
      <2> QED BY <2>1 DEF Resting, Workers
  <1> QED BY <1>1, <1>2

\* Steps of others: pending messages stay pending, none comes back.
LEMMA QueueStep ==
    ASSUME MailInv, queue' \in [MailIds -> Mails], UNCHANGED <<worker, delivered, unsure>>,
           \A m \in MailIds : /\ Pending(m) => queue'[m].status = "pending"
                              /\ queue'[m].status \in {"none", "pending"} => queue[m].status \in {"none", "pending"}
    PROVE  MailInv'
  <1>1. QueueTypes'
      BY DEF MailInv, QueueTypes
  <1>2. BatchHeld'
      <2> SUFFICES ASSUME worker.pc \in {"send", "mark"}
                   PROVE  \A i \in 1..Len(worker.batch) : queue'[worker.batch[i]].status = "pending"
          BY DEF MailInv, BatchHeld, Pending
      <2>1. worker.batch \in Seq(MailIds)
          BY DEF MailInv, QueueTypes, Workers
      <2>2. \A i \in 1..Len(worker.batch) : worker.batch[i] \in MailIds
          BY <2>1, ElementOfSeq
      <2> QED BY <2>2 DEF MailInv, BatchHeld
  <1>3. DeliveriesCounted'
      BY DEF MailInv, DeliveriesCounted, Accepted
  <1> QED BY <1>1, <1>2, <1>3 DEF MailInv

\* A new message takes an unused id.
LEMMA EnqueueKeeps ==
    ASSUME MailInv, NEW u \in Users \cup {NoMail.to}, Unused # {}, Enqueue(u), UNCHANGED <<worker, delivered, unsure>>
    PROVE  MailInv'
  <1> DEFINE m == CHOOSE x \in Unused : \A y \in Unused : x <= y
             mail == [status |-> "pending", to |-> u, attempts |-> 0, due |-> TRUE, old |-> FALSE]
  <1>1. m \in Unused
      BY EnqueuePicks
  <1>2. queue' = [queue EXCEPT ![m] = mail]
      BY DEF Enqueue
  <1>3. mail \in Mails /\ mail.status = "pending"
      BY DEF Mails
  <1> HIDE DEF m, mail
  <1>4. m \in MailIds /\ queue[m].status = "none" /\ queue \in [MailIds -> Mails]
      BY <1>1 DEF Unused, MailInv, QueueTypes
  <1>5. queue' \in [MailIds -> Mails] /\ \A x \in MailIds : queue'[x] = IF x = m THEN mail ELSE queue[x]
      BY <1>2, <1>3, <1>4
  <1> QED BY <1>3, <1>4, <1>5, QueueStep DEF Pending

\* Time, and the purge of finished messages.
LEMMA QueueTimeKeeps ==
    ASSUME MailInv, DeleteOlderThan \/ \E m \in MailIds : Due(m) \/ MailAges(m)
    PROVE  MailInv'
  <1>0. queue \in [MailIds -> Mails]
      BY DEF MailInv, QueueTypes
  <1>1. ASSUME NEW m \in MailIds, Due(m) \/ MailAges(m)
        PROVE  MailInv'
      <2>1. queue' \in [MailIds -> Mails] /\ \A x \in MailIds : queue'[x].status = queue[x].status
          <3>1. \A mail \in Mails : /\ [mail EXCEPT !.due = TRUE] \in Mails
                                    /\ [mail EXCEPT !.due = TRUE].status = mail.status
                                    /\ [mail EXCEPT !.old = TRUE] \in Mails
                                    /\ [mail EXCEPT !.old = TRUE].status = mail.status
              BY DEF Mails
          <3>2. \/ queue' = [queue EXCEPT ![m] = [queue[m] EXCEPT !.due = TRUE]]
                \/ queue' = [queue EXCEPT ![m] = [queue[m] EXCEPT !.old = TRUE]]
              BY <1>0, <1>1 DEF Due, MailAges
          <3>3. PICK y \in Mails : queue' = [queue EXCEPT ![m] = y] /\ y.status = queue[m].status
              BY <1>0, <3>1, <3>2
          <3> QED BY <1>0, <3>3
      <2> QED BY <1>1, <2>1, QueueStep DEF Due, MailAges, Pending
  <1>2. CASE DeleteOlderThan
      <2> DEFINE gone == [NoMail EXCEPT !.status = "gone"]
                 finished == {m \in MailIds : queue[m].status \in {"sent", "failed"} /\ queue[m].old}
      <2>1. queue' = [m \in MailIds |-> IF m \in finished THEN gone ELSE queue[m]]
          BY <1>2 DEF DeleteOlderThan
      <2>2. gone \in Mails /\ gone.status = "gone"
          <3>1. \A mail \in Mails : /\ [mail EXCEPT !.status = "gone"] \in Mails
                                    /\ [mail EXCEPT !.status = "gone"].status = "gone"
              BY DEF Mails
          <3> QED BY <3>1, RestTypes
      <2>3. \A m \in finished : ~Pending(m)
          BY DEF Pending
      <2> HIDE DEF gone, finished
      <2>4. queue' \in [MailIds -> Mails]
          BY <1>0, <2>1, <2>2
      <2> QED BY <1>2, <2>1, <2>2, <2>3, <2>4, QueueStep DEF DeleteOlderThan, Pending
  <1> QED BY <1>1, <1>2

\* A pass begins: what is a day old is given up on while the worker holds nothing.
LEMMA ProcessOnceKeeps ==
    ASSUME MailInv, ProcessOnce
    PROVE  MailInv'
  <1>0. queue \in [MailIds -> Mails] /\ worker \in Workers /\ worker.pc = "idle"
      BY DEF MailInv, QueueTypes, ProcessOnce
  <1>1. \A m \in MailIds : queue'[m] \in Mails /\ queue'[m].status \in {queue[m].status, "failed"}
      BY <1>0 DEF ProcessOnce, FailOlderThan, Mails
  <1>2. queue' \in [MailIds -> Mails]
      BY <1>1 DEF ProcessOnce, FailOlderThan
  <1>3. worker' \in Workers /\ worker'.pc \in {"idle", "claim"}
      BY <1>0 DEF ProcessOnce, Workers
  <1>4. UNCHANGED <<delivered, unsure>>
      BY DEF ProcessOnce
  <1>5. QueueTypes'
      BY <1>2, <1>3, <1>4 DEF MailInv, QueueTypes
  <1>6. BatchHeld'
      BY <1>3 DEF BatchHeld
  <1>7. DeliveriesCounted'
      BY <1>0, <1>1, <1>4 DEF MailInv, DeliveriesCounted, Accepted
  <1> QED BY <1>5, <1>6, <1>7 DEF MailInv

\* The worker claims due messages, each once.
LEMMA ClaimKeeps ==
    ASSUME MailInv, Claim
    PROVE  MailInv'
  <1> DEFINE batch == Oldest({m \in MailIds : Pending(m) /\ queue[m].due})
             claimed == [Resting EXCEPT !.pc = IF batch = {} THEN "idle" ELSE "send", !.batch = InOrder(batch)]
  <1>0. queue \in [MailIds -> Mails] /\ worker.pc = "claim"
      BY DEF MailInv, QueueTypes, Claim
  <1>1. batch \in SUBSET MailIds /\ \A m \in batch : Pending(m)
      BY DEF Oldest
  <1>2. /\ queue' = [m \in MailIds |->
               IF m \in batch THEN [queue[m] EXCEPT !.attempts = @ + 1, !.due = FALSE] ELSE queue[m]]
        /\ worker' = claimed
        /\ UNCHANGED <<delivered, unsure>>
      BY DEF Claim
  <1> HIDE DEF batch
  <1>3. /\ InOrder(batch) \in Seq(batch)
        /\ Len(InOrder(batch)) = Cardinality(batch)
        /\ \A i, j \in 1..Len(InOrder(batch)) : InOrder(batch)[i] = InOrder(batch)[j] => i = j
        /\ batch # {} => Cardinality(batch) # 0
      BY <1>1, InOrderLists, FS_EmptySet
  <1>4. InOrder(batch) \in Seq(MailIds) /\ \A i \in 1..Len(InOrder(batch)) : InOrder(batch)[i] \in batch
      BY <1>1, <1>3, SeqMonotonic, ElementOfSeq
  <1>5. \A m \in MailIds : queue'[m] \in Mails /\ queue'[m].status = queue[m].status
      <2>0. \A mail \in Mails : mail.attempts + 1 \in Nat
          BY DEF Mails
      <2>1. \A mail \in Mails : /\ [mail EXCEPT !.attempts = @ + 1, !.due = FALSE] \in Mails
                                /\ [mail EXCEPT !.attempts = @ + 1, !.due = FALSE].status = mail.status
          <3> TAKE mail \in Mails
          <3> DEFINE n == mail.attempts + 1
          <3>1. [mail EXCEPT !.attempts = @ + 1, !.due = FALSE] = [mail EXCEPT !.attempts = n, !.due = FALSE]
              BY DEF Mails
          <3>2. n \in Nat
              BY <2>0
          <3> HIDE DEF n
          <3>3. /\ [mail EXCEPT !.attempts = n, !.due = FALSE] \in Mails
                /\ [mail EXCEPT !.attempts = n, !.due = FALSE].status = mail.status
              BY <3>2 DEF Mails
          <3> QED BY <3>1, <3>3
      <2>2. \A m \in MailIds : \/ queue'[m] = queue[m]
                               \/ queue'[m] = [queue[m] EXCEPT !.attempts = @ + 1, !.due = FALSE]
          BY <1>2
      <2> TAKE m \in MailIds
      <2>3. queue[m] \in Mails
          BY <1>0
      <2>4. CASE queue'[m] = queue[m]
          BY <2>3, <2>4
      <2>5. CASE queue'[m] = [queue[m] EXCEPT !.attempts = @ + 1, !.due = FALSE]
          <3>1. PICK x \in Mails : x = queue[m]
              BY <2>3
          <3>2. queue'[m] = [x EXCEPT !.attempts = @ + 1, !.due = FALSE]
              BY <2>5, <3>1
          <3> QED BY <2>1, <3>1, <3>2
      <2> QED BY <2>2, <2>4, <2>5
  <1>6. queue' \in [MailIds -> Mails]
      BY <1>2, <1>5
  <1>7. /\ claimed \in Workers /\ claimed.pc = (IF batch = {} THEN "idle" ELSE "send")
        /\ claimed.batch = InOrder(batch)
      <2> DEFINE list == InOrder(batch)
                 pc == IF batch = {} THEN "idle" ELSE "send"
      <2>1. list \in Seq(MailIds) /\ pc \in {"idle", "send"}
          BY <1>4
      <2> HIDE DEF list, pc
      <2>2. \A w \in Workers : /\ [w EXCEPT !.pc = pc, !.batch = list] \in Workers
                               /\ [w EXCEPT !.pc = pc, !.batch = list].pc = pc
                               /\ [w EXCEPT !.pc = pc, !.batch = list].batch = list
          BY <2>1 DEF Workers
      <2>3. claimed = [Resting EXCEPT !.pc = pc, !.batch = list]
          BY DEF list, pc
      <2> HIDE DEF claimed
      <2>4. claimed \in Workers /\ claimed.pc = pc /\ claimed.batch = list
          BY <2>2, <2>3, RestTypes
      <2> QED BY <2>4 DEF list, pc
  <1> HIDE DEF claimed
  <1>8. QueueTypes'
      BY <1>2, <1>6, <1>7 DEF MailInv, QueueTypes
  <1>9. BatchHeld'
      <2> SUFFICES ASSUME batch # {}
                   PROVE  /\ InOrder(batch) # <<>>
                          /\ \A i \in 1..Len(InOrder(batch)) : queue'[InOrder(batch)[i]].status = "pending"
          <3>1. worker'.batch = InOrder(batch) /\ (worker'.pc \in {"send", "mark"} => batch # {})
              BY <1>2, <1>7
          <3> QED BY <1>3, <3>1 DEF BatchHeld, Pending
      <2>1. InOrder(batch) # <<>>
          BY <1>3, EmptySeq
      <2> QED BY <1>1, <1>4, <1>5, <2>1 DEF Pending
  <1>10. DeliveriesCounted'
      BY <1>0, <1>2, <1>5, <1>7 DEF MailInv, DeliveriesCounted, Accepted
  <1> QED BY <1>8, <1>9, <1>10 DEF MailInv

\* The message the worker is at, and those after it.
LEMMA HeadOfBatch ==
    ASSUME MailInv, worker.pc \in {"send", "mark"}
    PROVE  LET b == worker.batch IN
           /\ b \in Seq(MailIds) /\ Head(b) \in MailIds /\ Pending(Head(b))
           /\ Tail(b) \in Seq(MailIds)
           /\ Len(b) # 1 => Tail(b) # <<>>
           /\ \A i \in 1..Len(Tail(b)) : Pending(Tail(b)[i]) /\ Tail(b)[i] # Head(b) /\ Tail(b)[i] \in MailIds
           /\ \A i, j \in 1..Len(Tail(b)) : Tail(b)[i] = Tail(b)[j] => i = j
  <1> DEFINE b == worker.batch
             t == Tail(b)
  <1>1. /\ b \in Seq(MailIds) /\ b # <<>>
        /\ \A i \in 1..Len(b) : Pending(b[i])
        /\ \A i, j \in 1..Len(b) : b[i] = b[j] => i = j
      BY DEF MailInv, QueueTypes, Workers, BatchHeld
  <1> HIDE DEF b
  <1>2. /\ Head(b) \in MailIds /\ Head(b) = b[1] /\ t \in Seq(MailIds)
        /\ Len(b) \in Nat \ {0} /\ Len(t) = Len(b) - 1
        /\ \A i \in 1..Len(t) : t[i] = b[i + 1]
      BY <1>1, HeadTailProperties, LenProperties
  <1> HIDE DEF t
  <1>3. Len(b) # 1 => t # <<>>
      BY <1>2, EmptySeq
  <1>4. \A i \in 1..Len(t) : i + 1 \in 1..Len(b) /\ i + 1 # 1
      BY <1>2
  <1>5. 1 \in 1..Len(b)
      BY <1>2
  <1>6. \A i \in 1..Len(t) : Pending(t[i]) /\ t[i] # b[1] /\ t[i] \in MailIds
      BY <1>1, <1>2, <1>4, <1>5, ElementOfSeq
  <1>7. \A i, j \in 1..Len(t) : t[i] = t[j] => i = j
      <2> SUFFICES ASSUME NEW i \in 1..Len(t), NEW j \in 1..Len(t), t[i] = t[j] PROVE i = j
          OBVIOUS
      <2>1. i + 1 = j + 1
          BY <1>1, <1>2, <1>4
      <2> QED BY <1>2, <2>1
  <1> QED BY <1>1, <1>2, <1>3, <1>5, <1>6, <1>7 DEF b, t

\* What the worker goes on with.
LEMMA NextHeld ==
    ASSUME MailInv, worker.pc = "mark"
    PROVE  /\ NextInBatch \in Workers
           /\ NextInBatch.pc = (IF Len(worker.batch) = 1 THEN "idle" ELSE "send")
           /\ NextInBatch.batch = Tail(worker.batch)
  <1> DEFINE t == Tail(worker.batch)
             pc == IF Len(worker.batch) = 1 THEN "idle" ELSE "send"
  <1>1. worker \in Workers /\ t \in Seq(MailIds) /\ pc \in {"idle", "send"}
      BY HeadOfBatch DEF MailInv, QueueTypes
  <1>2. NextInBatch = [worker EXCEPT !.batch = t, !.outcome = "none", !.pc = pc]
      BY <1>1 DEF NextInBatch, Workers
  <1> HIDE DEF t, pc
  <1>3. /\ [worker EXCEPT !.batch = t, !.outcome = "none", !.pc = pc] \in Workers
        /\ [worker EXCEPT !.batch = t, !.outcome = "none", !.pc = pc].pc = pc
        /\ [worker EXCEPT !.batch = t, !.outcome = "none", !.pc = pc].batch = t
      BY <1>1 DEF Workers
  <1> QED BY <1>2, <1>3 DEF t, pc

\* An attempt: a message that is accepted had been only as often as the queue
\* does not know of, and one that is accepted unheard adds to those.
LEMMA SendKeeps ==
    ASSUME MailInv, NEW outcome \in Outcomes, Send(outcome)
    PROVE  MailInv'
  <1> DEFINE m == Head(worker.batch)
             sent == [worker EXCEPT !.pc = "mark", !.outcome = outcome]
  <1>1. worker.pc = "send" /\ worker' = sent /\ UNCHANGED queue
      BY DEF Send
  <1>2. worker \in Workers /\ delivered \in [MailIds -> Nat] /\ unsure \in [MailIds -> Nat]
      BY DEF MailInv, QueueTypes
  <1>3. sent \in Workers /\ sent.batch = worker.batch /\ sent.pc = "mark" /\ sent.outcome = outcome
      BY <1>2 DEF Workers, Outcomes
  <1>4. m \in MailIds /\ Pending(m)
      BY <1>1, HeadOfBatch
  <1>5. /\ delivered' = IF outcome \in {"accepted", "unheard"} THEN [delivered EXCEPT ![m] = @ + 1] ELSE delivered
        /\ unsure' = IF outcome = "unheard" THEN [unsure EXCEPT ![m] = @ + 1] ELSE unsure
      BY DEF Send
  <1> HIDE DEF m, sent
  <1>6. \A x \in MailIds :
           /\ delivered'[x] = IF x = m /\ outcome \in {"accepted", "unheard"} THEN delivered[x] + 1 ELSE delivered[x]
           /\ unsure'[x] = IF x = m /\ outcome = "unheard" THEN unsure[x] + 1 ELSE unsure[x]
      BY <1>2, <1>5
  <1>7. delivered' \in [MailIds -> Nat] /\ unsure' \in [MailIds -> Nat]
      <2>1. \A x \in MailIds : delivered'[x] \in Nat /\ unsure'[x] \in Nat
          BY <1>2, <1>6
      <2>2. /\ delivered' = [x \in MailIds |-> delivered'[x]]
            /\ unsure' = [x \in MailIds |-> unsure'[x]]
          BY <1>2, <1>5
      <2> QED BY <2>1, <2>2
  <1>8. QueueTypes'
      BY <1>1, <1>3, <1>7 DEF MailInv, QueueTypes
  <1>9. BatchHeld'
      BY <1>1, <1>3 DEF MailInv, BatchHeld, Pending
  <1>10. DeliveriesCounted'
      <2> SUFFICES ASSUME NEW x \in MailIds
                   PROVE  /\ delivered'[x] <= 1 + unsure'[x]
                          /\ queue[x].status \in {"none", "pending"} /\ ~(outcome = "accepted" /\ x = m)
                             => delivered'[x] <= unsure'[x]
          BY <1>1, <1>3 DEF DeliveriesCounted, Accepted, m
      <2>1. /\ delivered[x] <= 1 + unsure[x]
            /\ queue[x].status \in {"none", "pending"} => delivered[x] <= unsure[x]
            /\ delivered[x] \in Nat /\ unsure[x] \in Nat
          BY <1>1, <1>2 DEF MailInv, DeliveriesCounted, Accepted
      <2>2. CASE x = m
          BY <1>4, <1>6, <2>1, <2>2 DEF Pending
      <2>3. CASE x # m
          BY <1>6, <2>1, <2>3
      <2> QED BY <2>2, <2>3
  <1> QED BY <1>8, <1>9, <1>10 DEF MailInv

\* What a recorded outcome makes of a message.
LEMMA MarkedIs ==
    ASSUME NEW m \in MailIds, queue[m] \in Mails, NEW outcome
    PROVE  /\ Marked(m, outcome) \in Mails
           /\ outcome = "accepted" => Marked(m, outcome).status = "sent"
           /\ Marked(m, outcome).status \in {queue[m].status, "sent", "failed"}
  <1> DEFINE sent == [queue[m] EXCEPT !.status = "sent", !.old = FALSE]
             failed == [queue[m] EXCEPT !.status = "failed", !.old = FALSE]
  <1>1. sent \in Mails /\ failed \in Mails /\ sent.status = "sent" /\ failed.status = "failed"
      BY DEF Mails
  <1>2. outcome = "accepted" => Marked(m, outcome) = sent
      BY DEF Marked
  <1>3. Marked(m, outcome) \in {sent, failed, queue[m]}
      BY DEF Marked
  <1> HIDE DEF sent, failed
  <1> QED BY <1>1, <1>2, <1>3

\* The outcome is recorded: a delivered message leaves the queue.
LEMMA DeliverKeeps ==
    ASSUME MailInv, Deliver
    PROVE  MailInv'
  <1> DEFINE m == Head(worker.batch)
             t == Tail(worker.batch)
             mail == Marked(m, worker.outcome)
  <1>1. /\ worker.pc = "mark" /\ worker' = NextInBatch /\ queue' = [queue EXCEPT ![m] = mail]
        /\ UNCHANGED <<delivered, unsure>>
      BY DEF Deliver
  <1>2. queue \in [MailIds -> Mails]
      BY DEF MailInv, QueueTypes
  <1>3. /\ m \in MailIds
        /\ Len(worker.batch) # 1 => t # <<>>
        /\ \A i \in 1..Len(t) : Pending(t[i]) /\ t[i] # m /\ t[i] \in MailIds
        /\ \A i, j \in 1..Len(t) : t[i] = t[j] => i = j
      BY <1>1, HeadOfBatch
  <1>4. /\ worker' \in Workers /\ worker'.batch = t
        /\ worker'.pc = (IF Len(worker.batch) = 1 THEN "idle" ELSE "send")
      BY <1>1, NextHeld
  <1>5. /\ mail \in Mails
        /\ worker.outcome = "accepted" => mail.status = "sent"
        /\ mail.status \in {queue[m].status, "sent", "failed"}
      BY <1>2, <1>3, MarkedIs
  <1>6. Accepted(m) <=> worker.outcome = "accepted"
      BY <1>1 DEF Accepted
  <1>7. \A x \in MailIds : x # m => ~Accepted(x)
      BY DEF Accepted
  <1> HIDE DEF m, t, mail
  <1>8. queue' \in [MailIds -> Mails] /\ \A x \in MailIds : queue'[x] = IF x = m THEN mail ELSE queue[x]
      BY <1>1, <1>2, <1>3, <1>5
  <1>9. QueueTypes'
      BY <1>1, <1>4, <1>8 DEF MailInv, QueueTypes
  <1>10. BatchHeld'
      BY <1>3, <1>4, <1>8 DEF BatchHeld, Pending
  <1>11. DeliveriesCounted'
      <2> SUFFICES ASSUME NEW x \in MailIds
                   PROVE  /\ delivered[x] <= 1 + unsure[x]
                          /\ queue'[x].status \in {"none", "pending"} => delivered[x] <= unsure[x]
          BY <1>1, <1>4 DEF DeliveriesCounted
      <2>1. /\ delivered[x] <= 1 + unsure[x]
            /\ queue[x].status \in {"none", "pending"} /\ ~Accepted(x) => delivered[x] <= unsure[x]
          BY DEF MailInv, DeliveriesCounted
      <2>2. CASE x = m
          BY <1>5, <1>6, <1>8, <2>1, <2>2
      <2>3. CASE x # m
          BY <1>7, <1>8, <2>1, <2>3
      <2> QED BY <2>2, <2>3
  <1> QED BY <1>9, <1>10, <1>11 DEF MailInv

\* The record of an accepted message is lost: it is counted.
LEMMA LostKeeps ==
    ASSUME MailInv, worker.pc = "mark", LostRecord(Head(worker.batch))
    PROVE  /\ unsure' \in [MailIds -> Nat]
           /\ \A x \in MailIds : /\ delivered[x] <= 1 + unsure'[x]
                                 /\ queue[x].status \in {"none", "pending"} => delivered[x] <= unsure'[x]
  <1> DEFINE m == Head(worker.batch)
  <1>1. m \in MailIds /\ unsure \in [MailIds -> Nat] /\ delivered \in [MailIds -> Nat]
      BY HeadOfBatch DEF MailInv, QueueTypes
  <1>2. unsure' = IF worker.outcome = "accepted" THEN [unsure EXCEPT ![m] = @ + 1] ELSE unsure
      BY DEF LostRecord
  <1>3. \A x \in MailIds : Accepted(x) <=> x = m /\ worker.outcome = "accepted"
      BY DEF Accepted
  <1> HIDE DEF m
  <1>4. unsure' \in [MailIds -> Nat] /\ \A x \in MailIds : unsure'[x] = IF Accepted(x) THEN unsure[x] + 1 ELSE unsure[x]
      BY <1>1, <1>2, <1>3
  <1>5. \A x \in MailIds : delivered[x] \in Nat /\ unsure[x] \in Nat
      BY <1>1
  <1> QED BY <1>4, <1>5 DEF MailInv, DeliveriesCounted

\* The outcome cannot be recorded: the message stays in the queue.
LEMMA DeliverUnrecordedKeeps ==
    ASSUME MailInv, DeliverUnrecorded
    PROVE  MailInv'
  <1> DEFINE t == Tail(worker.batch)
  <1>1. worker.pc = "mark" /\ worker' = NextInBatch /\ LostRecord(Head(worker.batch)) /\ UNCHANGED <<queue, delivered>>
      BY DEF DeliverUnrecorded
  <1>2. /\ Len(worker.batch) # 1 => t # <<>>
        /\ \A i \in 1..Len(t) : Pending(t[i])
        /\ \A i, j \in 1..Len(t) : t[i] = t[j] => i = j
      BY <1>1, HeadOfBatch
  <1>3. /\ worker' \in Workers /\ worker'.batch = t
        /\ worker'.pc = (IF Len(worker.batch) = 1 THEN "idle" ELSE "send")
      BY <1>1, NextHeld
  <1> HIDE DEF t
  <1>4. QueueTypes'
      BY <1>1, <1>3, LostKeeps DEF MailInv, QueueTypes
  <1>5. BatchHeld'
      BY <1>1, <1>2, <1>3 DEF BatchHeld, Pending
  <1>6. DeliveriesCounted'
      BY <1>1, LostKeeps DEF DeliveriesCounted
  <1> QED BY <1>4, <1>5, <1>6 DEF MailInv

\* The server dies with a batch in hand: it is dropped, the leases remain.
LEMMA CrashKeeps ==
    ASSUME MailInv, Crash
    PROVE  MailInv'
  <1>1. worker' = Resting /\ UNCHANGED <<queue, delivered>>
      BY DEF Crash
  <1>2. /\ unsure' \in [MailIds -> Nat]
        /\ \A x \in MailIds : /\ delivered[x] <= 1 + unsure'[x]
                              /\ queue[x].status \in {"none", "pending"} => delivered[x] <= unsure'[x]
      <2>1. CASE worker.pc = "mark"
          BY <2>1, LostKeeps DEF Crash
      <2>2. CASE worker.pc # "mark"
          BY <2>2 DEF Crash, MailInv, QueueTypes, DeliveriesCounted, Accepted
      <2> QED BY <2>1, <2>2
  <1>3. QueueTypes'
      BY <1>1, <1>2, RestTypes DEF MailInv, QueueTypes
  <1>4. BatchHeld'
      BY <1>1, RestTypes DEF BatchHeld
  <1>5. DeliveriesCounted'
      BY <1>1, <1>2 DEF DeliveriesCounted
  <1> QED BY <1>3, <1>4, <1>5 DEF MailInv

\* Steps that leave the queue and the worker alone.
LEMMA MailIdle ==
    ASSUME MailInv, UNCHANGED <<queue, worker, delivered, unsure>>
    PROVE  MailInv'
  BY DEF MailInv, QueueTypes, BatchHeld, DeliveriesCounted, Pending, Accepted

\* At first nothing is queued.
LEMMA MailInitInv == EmailInit => MailInv
  <1> SUFFICES ASSUME EmailInit PROVE MailInv
      OBVIOUS
  <1>1. /\ queue = [m \in MailIds |-> NoMail] /\ worker = Resting
        /\ delivered = [m \in MailIds |-> 0] /\ unsure = [m \in MailIds |-> 0]
      BY DEF EmailInit
  <1>2. QueueTypes
      BY <1>1, RestTypes DEF QueueTypes
  <1>3. BatchHeld
      BY <1>1, RestTypes DEF BatchHeld
  <1>4. DeliveriesCounted
      BY <1>1 DEF DeliveriesCounted
  <1> QED BY <1>2, <1>3, <1>4 DEF MailInv

-----------------------------------------------------------------------------
(* Digests.                                                                *)

\* A digest that was begun is somebody's.
DigestHasUser ==
    \A mode \in Digests : digester[mode].pc \in {"pending", "queue", "clear"} => digester[mode].user \in Users

NewsInv == NewsTypes /\ DigestHasUser

\* The empty item, the resting digest job and the person at rest have their
\* types, and so has a job that moves on.
LEMMA NoNewsTypes ==
    /\ NoItem \in Items /\ NoItem.sev = 0
    /\ NotDigesting \in Digesters /\ NotDigesting.pc = "idle"
    /\ NotChoosing \in Choices
    /\ \A d \in Digesters, ps \in {"idle", "drop", "list", "user"} :
          [d EXCEPT !.pc = ps] \in Digesters /\ [d EXCEPT !.pc = ps].pc = ps
    /\ \A d \in Digesters :
          /\ [d EXCEPT !.pc = "clear"] \in Digesters
          /\ [d EXCEPT !.pc = "clear"].user = d.user
  <1>1. NoItem \in Items /\ NoItem.sev = 0
      BY DEF NoItem, Items
  <1>2. [delivery |-> "off", min |-> 1, addr |-> FALSE] \in Preferences /\ NotChoosing \in Choices
      BY AlertsAssumption DEF Preferences, Deliveries, Severities, NotChoosing, Choices
  <1>3. [a \in AlertIds |-> 0] \in [AlertIds -> Nat]
      OBVIOUS
  <1>4. NotDigesting \in Digesters /\ NotDigesting.pc = "idle"
      BY <1>2, <1>3 DEF NotDigesting, Digesters
  <1>5. \A d \in Digesters, ps \in {"idle", "drop", "list", "user"} :
          [d EXCEPT !.pc = ps] \in Digesters /\ [d EXCEPT !.pc = ps].pc = ps
      BY DEF Digesters
  <1>6. \A d \in Digesters :
          /\ [d EXCEPT !.pc = "clear"] \in Digesters
          /\ [d EXCEPT !.pc = "clear"].user = d.user
      BY DEF Digesters
  <1> QED BY <1>1, <1>2, <1>4, <1>5, <1>6

\* At first nobody waits for news.
LEMMA NewsInitInv == EmailInit /\ emailOn \in BOOLEAN /\ prefs \in [Users -> Preferences] => NewsInv
  <1> SUFFICES ASSUME EmailInit, emailOn \in BOOLEAN, prefs \in [Users -> Preferences] PROVE NewsInv
      OBVIOUS
  <1>1. NewsTypes
      BY NoNewsTypes DEF EmailInit, NewsTypes
  <1>2. DigestHasUser
      BY NoNewsTypes DEF EmailInit, DigestHasUser
  <1> QED BY <1>1, <1>2 DEF NewsInv

\* What a step may do to the news that wait: the action of DigestNewsKept.
KeepsNews ==
    \A u \in Users, a \in AlertIds :
        NewsLost(u, a)' => \/ NewsLost(u, a)
                           \/ \E mode \in Digests :
                                 /\ digester[mode].pc = "clear" /\ digester[mode].user = u
                                 /\ digester[mode].read[a] \in 1..(owed[u][a] - 1)

\* The tables a step reads and writes have numbers in them.
LEMMA NewsNumbers ==
    ASSUME NewsInv
    PROVE  /\ \A u \in Users, a \in AlertIds : /\ waiting[u][a] \in Items /\ waiting[u][a].sev \in Nat
                                               /\ owed[u][a] \in Nat
           /\ \A mode \in Digests, a \in AlertIds : digester[mode].read[a] \in Nat
  BY DEF NewsInv, NewsTypes, Items, Digesters

\* Steps that leave items where they are, or drop an item and the debt.
LEMMA NewsDropped ==
    ASSUME NewsInv, waiting' \in [Users -> [AlertIds -> Items]], owed' \in [Users -> [AlertIds -> Nat]],
           \A u \in Users, a \in AlertIds :
               \/ owed'[u][a] = 0
               \/ waiting'[u][a].sev = waiting[u][a].sev /\ owed'[u][a] = owed[u][a]
    PROVE  KeepsNews
  <1> SUFFICES ASSUME NEW u \in Users, NEW a \in AlertIds, owed'[u][a] > waiting'[u][a].sev
               PROVE  owed[u][a] > waiting[u][a].sev
      BY DEF KeepsNews, NewsLost
  <1>1. waiting'[u][a].sev \in Nat
      BY DEF Items
  <1> QED BY <1>1

\* Steps that leave the digests alone altogether.
LEMMA NewsIdle ==
    ASSUME NewsInv, UNCHANGED <<emailOn, prefs, waiting, telling, digester, choosing, crashes, owed>>
    PROVE  NewsInv' /\ KeepsNews
  <1>1. NewsInv'
      BY DEF NewsInv, NewsTypes, DigestHasUser
  <1>2. KeepsNews
      BY NewsDropped DEF NewsInv, NewsTypes
  <1> QED BY <1>1, <1>2

\* A recipient's item takes a repeat's severity: item and debt grow alike.
LEMMA AddKeeps ==
    ASSUME NewsInv, NEW u \in Users, NEW a \in AlertIds, NEW s \in Nat, AddDigestItem(u, a, s)
    PROVE  /\ waiting' \in [Users -> [AlertIds -> Items]] /\ owed' \in [Users -> [AlertIds -> Nat]]
           /\ KeepsNews
  <1> DEFINE w == Worse(waiting[u][a].sev, s)
             o == Worse(owed[u][a], s)
             item == [waiting[u][a] EXCEPT !.sev = w]
             items == [waiting[u] EXCEPT ![a] = item]
             debts == [owed[u] EXCEPT ![a] = o]
  <1>1. waiting \in [Users -> [AlertIds -> Items]] /\ owed \in [Users -> [AlertIds -> Nat]]
      BY DEF NewsInv, NewsTypes
  <1>2. waiting[u][a] \in Items /\ waiting[u][a].sev \in Nat /\ owed[u][a] \in Nat
      BY NewsNumbers
  <1>3. w \in Nat /\ o \in Nat
      BY <1>2 DEF Worse
  <1>4. o > w => owed[u][a] > waiting[u][a].sev
      BY <1>2 DEF Worse
  <1>5. waiting' = [waiting EXCEPT ![u] = items] /\ owed' = [owed EXCEPT ![u] = debts]
      BY <1>1 DEF AddDigestItem
  <1> HIDE DEF w, o
  <1>6. item \in Items /\ item.sev = w
      BY <1>2, <1>3 DEF Items
  <1> HIDE DEF item
  <1>7. items \in [AlertIds -> Items] /\ debts \in [AlertIds -> Nat]
      BY <1>1, <1>3, <1>6
  <1>8. \A b \in AlertIds : /\ items[b] = IF b = a THEN item ELSE waiting[u][b]
                            /\ debts[b] = IF b = a THEN o ELSE owed[u][b]
      BY <1>1
  <1> HIDE DEF items, debts
  <1>9. waiting' \in [Users -> [AlertIds -> Items]] /\ owed' \in [Users -> [AlertIds -> Nat]]
      BY <1>1, <1>5, <1>7
  <1>10. \A v \in Users : /\ waiting'[v] = IF v = u THEN items ELSE waiting[v]
                          /\ owed'[v] = IF v = u THEN debts ELSE owed[v]
      BY <1>1, <1>5
  <1>11. ASSUME NEW v \in Users, NEW b \in AlertIds, owed'[v][b] > waiting'[v][b].sev
         PROVE  owed[v][b] > waiting[v][b].sev
      <2>1. CASE v = u /\ b = a
          BY <1>4, <1>6, <1>8, <1>10, <1>11, <2>1
      <2>2. CASE ~(v = u /\ b = a)
          BY <1>8, <1>10, <1>11, <2>2
      <2> QED BY <2>1, <2>2
  <1>12. KeepsNews
      BY <1>11 DEF KeepsNews, NewsLost
  <1> QED BY <1>9, <1>12

\* A raise tells its recipients.
LEMMA TellKeepsNews ==
    ASSUME AlertInv, NewsInv, Tell
    PROVE  NewsInv' /\ KeepsNews
  <1> DEFINE Recipients == SUBSET (Users \X Deliveries \X Severities)
  <1>1. telling \in [Producers -> Recipients] /\ raising \in [Producers -> Raises]
        /\ prefs \in [Users -> Preferences]
      BY DEF NewsInv, NewsTypes, AlertInv, AlertTypes
  <1>2. ASSUME NEW p \in Producers, AlertRaised(p)
        PROVE  NewsInv' /\ KeepsNews
      <2> DEFINE rcpts == IF emailOn THEN RecipientsForAlert(raising[p].alert, raising[p].sev) ELSE {}
                 told == {<<u, prefs[u].delivery, raising[p].sev>> : u \in rcpts}
      <2>1. telling' = [telling EXCEPT ![p] = told] /\ UNCHANGED <<emailOn, prefs, waiting, digester, choosing, crashes, owed>>
          BY <1>2 DEF AlertRaised
      <2>2. rcpts \subseteq Users
          BY DEF RecipientsForAlert
      <2>4. raising[p].sev \in Severities
          BY <1>1 DEF Raises
      <2>5. \A u \in Users : prefs[u].delivery \in Deliveries
          BY <1>1 DEF Preferences
      <2> HIDE DEF rcpts
      <2>6. told \in Recipients
          BY <2>2, <2>4, <2>5
      <2> HIDE DEF told
      <2>7. telling' \in [Producers -> Recipients]
          BY <1>1, <2>1, <2>6
      <2>8. NewsInv'
          BY <2>1, <2>7 DEF NewsInv, NewsTypes, DigestHasUser
      <2> QED BY <2>1, <2>8, NewsDropped DEF NewsInv, NewsTypes
  <1>3. ASSUME NEW p \in Producers, NEW r \in telling[p], ToldOne(p, r),
               waiting' \in [Users -> [AlertIds -> Items]], owed' \in [Users -> [AlertIds -> Nat]],
               UNCHANGED <<emailOn, prefs, digester, choosing, crashes>>
        PROVE  NewsInv'
      <2> DEFINE left == telling[p] \ {r}
      <2>1. telling' = [telling EXCEPT ![p] = left]
          BY <1>3 DEF ToldOne
      <2>2. left \in Recipients
          BY <1>1
      <2> HIDE DEF left
      <2>3. telling' \in [Producers -> Recipients]
          BY <1>1, <2>1, <2>2
      <2> QED BY <1>3, <2>3 DEF NewsInv, NewsTypes, DigestHasUser
  <1>4. waiting \in [Users -> [AlertIds -> Items]] /\ owed \in [Users -> [AlertIds -> Nat]]
      BY DEF NewsInv, NewsTypes
  <1>5. ASSUME NEW p \in Producers, TellOne(p)
        PROVE  NewsInv' /\ KeepsNews
      <2>1. PICK r \in telling[p] :
               /\ ToldOne(p, r)
               /\ \/ UNCHANGED <<waiting, owed>>
                  \/ AddDigestItem(r[1], raising[p].alert, r[3])
               /\ UNCHANGED <<emailOn, prefs, digester, choosing, crashes>>
          BY <1>5 DEF TellOne
      <2>2. r \in Users \X Deliveries \X Severities
          BY <1>1
      <2>3. r[1] \in Users /\ r[3] \in Nat
          BY <2>2 DEF Severities
      <2>4. raising[p].alert \in AlertIds
          BY <1>1 DEF Raises
      <2>5. CASE UNCHANGED <<waiting, owed>>
          <3>1. NewsInv'
              BY <1>3, <1>4, <2>1, <2>5
          <3>2. KeepsNews
              BY <1>4, <2>5, NewsDropped
          <3> QED BY <3>1, <3>2
      <2>6. CASE AddDigestItem(r[1], raising[p].alert, r[3])
          <3>1. /\ waiting' \in [Users -> [AlertIds -> Items]] /\ owed' \in [Users -> [AlertIds -> Nat]]
                /\ KeepsNews
              BY <2>3, <2>4, <2>6, AddKeeps
          <3>2. NewsInv'
              BY <1>3, <2>1, <3>1
          <3> QED BY <3>1, <3>2
      <2> QED BY <2>1, <2>5, <2>6
  <1>6. ASSUME NEW p \in Producers, TellFails(p)
        PROVE  NewsInv' /\ KeepsNews
      <2>1. PICK r \in telling[p] : ToldOne(p, r) /\ UNCHANGED <<waiting, owed, emailOn, prefs, digester, choosing, crashes>>
          BY <1>6 DEF TellFails
      <2>2. NewsInv'
          BY <1>3, <1>4, <2>1
      <2>3. KeepsNews
          BY <1>4, <2>1, NewsDropped
      <2> QED BY <2>2, <2>3
  <1> QED BY <1>2, <1>5, <1>6 DEF Tell

\* One of the two jobs moves: the other stays where it is.
LEMMA JobMoves ==
    ASSUME NewsInv, NEW mode \in Digests, NEW d \in Digesters, Digester(mode, d),
           d.pc \in {"pending", "queue", "clear"} => d.user \in Users
    PROVE  digester' \in [Digests -> Digesters] /\ DigestHasUser'
  <1>1. digester \in [Digests -> Digesters] /\ digester' = [digester EXCEPT ![mode] = d]
      BY DEF NewsInv, NewsTypes, Digester
  <1> QED BY <1>1 DEF NewsInv, DigestHasUser

\* Steps of a digest job that read: the job moves on, the tables stay.
LEMMA DigesterMoves ==
    ASSUME NewsInv, digester' \in [Digests -> Digesters], DigestHasUser',
           UNCHANGED <<emailOn, prefs, waiting, telling, choosing, crashes, owed>>
    PROVE  NewsInv' /\ KeepsNews
  <1>1. NewsInv'
      BY DEF NewsInv, NewsTypes
  <1>2. KeepsNews
      BY NewsDropped DEF NewsInv, NewsTypes
  <1> QED BY <1>1, <1>2

\* A digest job drops what waited too long, debt and all.
LEMMA DropKeeps ==
    ASSUME NewsInv, NEW mode \in Digests, DeleteDigestItemsOlderThan(mode)
    PROVE  NewsInv' /\ KeepsNews
  <1> DEFINE kept == [u \in Users |-> [a \in AlertIds |-> IF waiting[u][a].old THEN NoItem ELSE waiting[u][a]]]
             debts == [u \in Users |-> [a \in AlertIds |-> IF waiting[u][a].old THEN 0 ELSE owed[u][a]]]
  <1>1. waiting' = kept /\ owed' = debts /\ UNCHANGED <<emailOn, prefs, telling, choosing, crashes>>
      BY DEF DeleteDigestItemsOlderThan
  <1>2. digester' \in [Digests -> Digesters] /\ DigestHasUser'
      <2>1. Digester(mode, [NotDigesting EXCEPT !.pc = "list"])
          BY DEF DeleteDigestItemsOlderThan
      <2>2. /\ [NotDigesting EXCEPT !.pc = "list"] \in Digesters
            /\ [NotDigesting EXCEPT !.pc = "list"].pc = "list"
          BY NoNewsTypes
      <2> QED BY <2>1, <2>2, JobMoves
  <1>3. \A u \in Users, a \in AlertIds : waiting[u][a] \in Items /\ owed[u][a] \in Nat
      BY NewsNumbers
  <1>4. kept \in [Users -> [AlertIds -> Items]] /\ debts \in [Users -> [AlertIds -> Nat]]
      BY <1>3, NoNewsTypes
  <1>5. \A u \in Users, a \in AlertIds : \/ debts[u][a] = 0
                                         \/ kept[u][a].sev = waiting[u][a].sev /\ debts[u][a] = owed[u][a]
      OBVIOUS
  <1> HIDE DEF kept, debts
  <1>6. NewsInv'
      BY <1>1, <1>2, <1>4 DEF NewsInv, NewsTypes
  <1> QED BY <1>1, <1>4, <1>5, <1>6, NewsDropped

\* A digest job begins, or lists whom to write to.
LEMMA RunDigestKeeps ==
    ASSUME NewsInv, NEW mode \in Digests, RunDigest(mode) \/ DropFails(mode) \/ UsersWithDigestItems(mode)
    PROVE  NewsInv' /\ KeepsNews
  <1> DEFINE calls == {u \in Users : prefs[u].delivery = mode /\ \E a \in AlertIds : Waits(waiting, u, a)}
  <1>1. UNCHANGED <<emailOn, prefs, waiting, telling, choosing, crashes, owed>>
      BY DEF RunDigest, DropFails, UsersWithDigestItems
  <1>2. PICK d \in Digesters : Digester(mode, d) /\ d.pc \in {"idle", "drop", "list", "user"}
      <2>1. CASE RunDigest(mode)
          <3> DEFINE job == [NotDigesting EXCEPT !.pc = "drop"]
          <3>1. Digester(mode, job)
              BY <2>1 DEF RunDigest
          <3>2. job \in Digesters /\ job.pc = "drop"
              BY NoNewsTypes
          <3> HIDE DEF job
          <3> QED BY <3>1, <3>2
      <2>2. CASE DropFails(mode)
          <3> DEFINE job == [NotDigesting EXCEPT !.pc = "list"]
          <3>1. Digester(mode, job)
              BY <2>2 DEF DropFails
          <3>2. job \in Digesters /\ job.pc = "list"
              BY NoNewsTypes
          <3> HIDE DEF job
          <3> QED BY <3>1, <3>2
      <2>3. CASE UsersWithDigestItems(mode)
          <3>1. PICK us \in {calls, {}} :
                   Digester(mode, [NotDigesting EXCEPT !.pc = IF us = {} THEN "idle" ELSE "user", !.users = us])
              BY <2>3 DEF UsersWithDigestItems
          <3>2. us \in SUBSET Users
              OBVIOUS
          <3>3. PICK ps \in {"idle", "user"} : ps = IF us = {} THEN "idle" ELSE "user"
              OBVIOUS
          <3> DEFINE job == [NotDigesting EXCEPT !.pc = ps, !.users = us]
          <3>4. Digester(mode, job)
              BY <3>1, <3>3
          <3>5. job \in Digesters /\ job.pc = ps
              <4>1. NotDigesting \in Digesters
                  BY NoNewsTypes
              <4> QED BY <3>2, <3>3, <4>1 DEF Digesters
          <3> HIDE DEF job
          <3> QED BY <3>3, <3>4, <3>5
      <2> QED BY <2>1, <2>2, <2>3
  <1>3. digester' \in [Digests -> Digesters] /\ DigestHasUser'
      BY <1>2, JobMoves
  <1> QED BY <1>1, <1>3, DigesterMoves

\* The steps of one person's digest.
LEMMA DigestKeeps ==
    ASSUME NewsInv, Digest
    PROVE  NewsInv' /\ KeepsNews
  <1>1. PICK mode \in Digests :
           \/ RunDigest(mode) \/ DeleteDigestItemsOlderThan(mode) \/ DropFails(mode)
           \/ UsersWithDigestItems(mode)
           \/ \E u \in Users : DigestGet(mode, u)
           \/ PendingDigest(mode) \/ QueueDigest(mode) \/ QueueDigestFails(mode)
           \/ ClearDigest(mode) \/ ClearDigestFails(mode)
      BY DEF Digest
  <1> DEFINE d == digester[mode]
             onwards == IF d.users = {} THEN "idle" ELSE "user"
             moved == [d EXCEPT !.pc = onwards]
  <1>2. /\ d \in Digesters /\ prefs \in [Users -> Preferences]
        /\ waiting \in [Users -> [AlertIds -> Items]] /\ owed \in [Users -> [AlertIds -> Nat]]
      BY DEF NewsInv, NewsTypes
  <1>3. moved \in Digesters /\ moved.pc \in {"idle", "user"}
      <2>1. onwards \in {"idle", "user"}
          OBVIOUS
      <2> HIDE DEF d, onwards
      <2> QED BY <1>2, <2>1 DEF Digesters
  <1>4. d.pc \in {"pending", "queue", "clear"} => d.user \in Users
      BY DEF NewsInv, DigestHasUser
  <1>5. NextUser(mode) => digester' \in [Digests -> Digesters] /\ DigestHasUser'
      BY <1>3, JobMoves DEF NextUser
  <1>6. ASSUME NEW u \in Users, DigestGet(mode, u) PROVE NewsInv' /\ KeepsNews
      <2> DEFINE job == [d EXCEPT !.pc = "pending", !.users = @ \ {u}, !.user = u, !.pref = prefs[u]]
      <2>1. job \in Digesters /\ job.user = u
          <3> HIDE DEF d
          <3> QED BY <1>2 DEF Digesters
      <2>2. Digester(mode, job) /\ UNCHANGED <<emailOn, prefs, waiting, telling, choosing, crashes, owed>>
          BY <1>6 DEF DigestGet
      <2> HIDE DEF job
      <2>3. digester' \in [Digests -> Digesters] /\ DigestHasUser'
          BY <2>1, <2>2, JobMoves
      <2> QED BY <2>2, <2>3, DigesterMoves
  <1>7. ASSUME PendingDigest(mode) PROVE NewsInv' /\ KeepsNews
      <2> DEFINE u == d.user
                 read == [a \in AlertIds |-> waiting[u][a].sev]
      <2>1. PICK pc \in {"queue", "clear"}, list \in SUBSET AlertIds :
               Digester(mode, [d EXCEPT !.pc = pc, !.read = read, !.list = list])
          BY <1>7 DEF PendingDigest
      <2>2. u \in Users /\ UNCHANGED <<emailOn, prefs, waiting, telling, choosing, crashes, owed>>
          BY <1>4, <1>7 DEF PendingDigest
      <2>3. read \in [AlertIds -> Nat]
          BY <2>2, NewsNumbers
      <2> HIDE DEF read
      <2>4. /\ [d EXCEPT !.pc = pc, !.read = read, !.list = list] \in Digesters
            /\ [d EXCEPT !.pc = pc, !.read = read, !.list = list].user = u
          <3> HIDE DEF d
          <3> QED BY <1>2, <2>1, <2>3 DEF Digesters
      <2>5. digester' \in [Digests -> Digesters] /\ DigestHasUser'
          BY <2>1, <2>2, <2>4, JobMoves
      <2> QED BY <2>2, <2>5, DigesterMoves
  <1>8. ASSUME QueueDigestFails(mode) \/ ClearDigestFails(mode) PROVE NewsInv' /\ KeepsNews
      <2>1. NextUser(mode) /\ UNCHANGED <<emailOn, prefs, waiting, telling, choosing, crashes, owed>>
          BY <1>8 DEF QueueDigestFails, ClearDigestFails
      <2> QED BY <1>5, <2>1, DigesterMoves
  <1>9. ASSUME QueueDigest(mode) PROVE NewsInv' /\ KeepsNews
      <2> DEFINE u == d.user
                 debts == [a \in AlertIds |->
                     IF a \in d.list /\ owed[u][a] <= d.read[a] THEN 0 ELSE owed[u][a]]
                 job == [d EXCEPT !.pc = "clear"]
      <2>1. u \in Users /\ Digester(mode, job) /\ UNCHANGED <<emailOn, prefs, waiting, telling, choosing, crashes>>
          BY <1>4, <1>9 DEF QueueDigest
      <2>2. owed' = [owed EXCEPT ![u] = debts]
          BY <1>2, <1>9, <2>1 DEF QueueDigest
      <2>3. debts \in [AlertIds -> Nat] /\ \A a \in AlertIds : debts[a] \in {0, owed[u][a]}
          BY <2>1, NewsNumbers
      <2>4. job \in Digesters /\ job.user = u
          BY <1>2, NoNewsTypes
      <2> HIDE DEF debts, job, u
      <2>5. owed' \in [Users -> [AlertIds -> Nat]] /\ \A v \in Users : owed'[v] = IF v = u THEN debts ELSE owed[v]
          BY <1>2, <2>2, <2>3
      <2>6. digester' \in [Digests -> Digesters] /\ DigestHasUser'
          BY <2>1, <2>4, JobMoves
      <2>7. NewsInv'
          BY <2>1, <2>5, <2>6 DEF NewsInv, NewsTypes
      <2>8. \A v \in Users, a \in AlertIds :
               owed'[v][a] = 0 \/ (waiting'[v][a].sev = waiting[v][a].sev /\ owed'[v][a] = owed[v][a])
          BY <2>1, <2>3, <2>5
      <2> QED BY <1>2, <2>1, <2>5, <2>7, <2>8, NewsDropped
  <1>10. ASSUME ClearDigest(mode) PROVE NewsInv' /\ KeepsNews
      <2> DEFINE u == d.user
                 ids == DeleteDigestItems(mode, u)
                 items == [a \in AlertIds |-> IF a \in ids THEN NoItem ELSE waiting[u][a]]
                 debts == [a \in AlertIds |-> IF owed[u][a] <= d.read[a] THEN 0 ELSE owed[u][a]]
      <2>1. u \in Users /\ d.pc = "clear" /\ NextUser(mode) /\ UNCHANGED <<emailOn, prefs, telling, choosing, crashes>>
          BY <1>4, <1>10 DEF ClearDigest
      <2>2. waiting' = [waiting EXCEPT ![u] = items] /\ owed' = [owed EXCEPT ![u] = debts]
          BY <1>2, <1>10, <2>1 DEF ClearDigest
      <2>3. \A a \in AlertIds : /\ waiting[u][a] \in Items /\ waiting[u][a].sev \in Nat /\ owed[u][a] \in Nat
                                /\ d.read[a] \in Nat
          BY <2>1, NewsNumbers
      <2>4. items \in [AlertIds -> Items] /\ debts \in [AlertIds -> Nat]
          BY <2>3, NoNewsTypes
      <2>5. ASSUME NEW a \in AlertIds, debts[a] > items[a].sev
            PROVE  owed[u][a] > waiting[u][a].sev \/ d.read[a] \in 1..(owed[u][a] - 1)
          <3>1. owed[u][a] > d.read[a] /\ debts[a] = owed[u][a]
              <4>1. items[a].sev \in Nat
                  BY <2>4 DEF Items
              <4>2. debts[a] = IF owed[u][a] <= d.read[a] THEN 0 ELSE owed[u][a]
                  OBVIOUS
              <4> HIDE DEF debts, items, u, d
              <4> QED BY <2>3, <2>5, <4>1, <4>2
          <3>2. CASE a \in ids
              <4>1. d.read[a] > 0
                  BY <3>2 DEF DeleteDigestItems
              <4> HIDE DEF u, d
              <4> QED BY <2>3, <3>1, <4>1
          <3>3. CASE a \notin ids
              BY <2>5, <3>1, <3>3
          <3> QED BY <3>2, <3>3
      <2> HIDE DEF items, debts, ids
      <2>6. /\ waiting' \in [Users -> [AlertIds -> Items]] /\ owed' \in [Users -> [AlertIds -> Nat]]
            /\ \A v \in Users : /\ waiting'[v] = IF v = u THEN items ELSE waiting[v]
                                /\ owed'[v] = IF v = u THEN debts ELSE owed[v]
          <3> HIDE DEF u
          <3> QED BY <1>2, <2>2, <2>4
      <2>7. NewsInv'
          BY <1>5, <2>1, <2>6 DEF NewsInv, NewsTypes
      <2>8. KeepsNews
          <3> SUFFICES ASSUME NEW v \in Users, NEW a \in AlertIds, owed'[v][a] > waiting'[v][a].sev
                       PROVE  \/ owed[v][a] > waiting[v][a].sev
                              \/ d.pc = "clear" /\ u = v /\ d.read[a] \in 1..(owed[v][a] - 1)
              BY DEF KeepsNews, NewsLost
          <3> HIDE DEF u, d
          <3> QED BY <2>1, <2>5, <2>6
      <2> QED BY <2>7, <2>8
  <1> QED BY <1>1, <1>6, <1>7, <1>8, <1>9, <1>10, DropKeeps, RunDigestKeeps

\* Choices, ages, settings, a crash and the retention of alerts.
LEMMA RestKeepsNews ==
    ASSUME NewsInv,
           \/ SwitchEmail \/ Crash \/ ExpireAlerts \/ Choose
           \/ \E u \in Users, a \in AlertIds : ItemAges(u, a)
    PROVE  NewsInv' /\ KeepsNews
  <1>1. /\ prefs \in [Users -> Preferences]
        /\ waiting \in [Users -> [AlertIds -> Items]] /\ owed \in [Users -> [AlertIds -> Nat]]
      BY DEF NewsInv, NewsTypes
  <1>2. ASSUME SwitchEmail PROVE NewsInv' /\ KeepsNews
      <2>1. emailOn' = ~emailOn /\ UNCHANGED <<prefs, waiting, telling, digester, choosing, crashes, owed>>
          BY <1>2 DEF SwitchEmail
      <2>2. emailOn' \in BOOLEAN
          BY <2>1, Zenon
      <2>3. NewsInv'
          BY <2>1, <2>2 DEF NewsInv, NewsTypes, DigestHasUser
      <2> QED BY <1>1, <2>1, <2>3, NewsDropped
  <1>3. ASSUME Crash PROVE NewsInv' /\ KeepsNews
      <2>1. /\ crashes' = crashes + 1 /\ digester' = [mode \in Digests |-> NotDigesting]
            /\ choosing' = [u \in Users |-> NotChoosing] /\ telling' = [q \in Producers |-> {}]
            /\ UNCHANGED <<emailOn, prefs, waiting, owed>>
          BY <1>3 DEF Crash
      <2>2. NewsTypes'
          <3>1. digester' \in [Digests -> Digesters] /\ choosing' \in [Users -> Choices]
              BY <2>1, NoNewsTypes
          <3>2. crashes' \in Nat /\ telling' \in [Producers -> SUBSET (Users \X Deliveries \X Severities)]
              BY <2>1 DEF NewsInv, NewsTypes
          <3> QED BY <2>1, <3>1, <3>2 DEF NewsInv, NewsTypes
      <2>3. DigestHasUser'
          BY <2>1, NoNewsTypes DEF DigestHasUser
      <2> QED BY <1>1, <2>1, <2>2, <2>3, NewsDropped DEF NewsInv
  <1>4. ASSUME ExpireAlerts PROVE NewsInv' /\ KeepsNews
      <2>1. /\ waiting' = [u \in Users |-> [a \in AlertIds |-> IF alertRow[a].old THEN NoItem ELSE waiting[u][a]]]
            /\ owed' = [u \in Users |-> [a \in AlertIds |-> IF alertRow[a].old THEN 0 ELSE owed[u][a]]]
            /\ UNCHANGED <<emailOn, prefs, telling, digester, choosing, crashes>>
          BY <1>4 DEF ExpireAlerts
      <2>2. waiting' \in [Users -> [AlertIds -> Items]] /\ owed' \in [Users -> [AlertIds -> Nat]]
          BY <2>1, NewsNumbers, NoNewsTypes
      <2>3. NewsInv'
          BY <2>1, <2>2 DEF NewsInv, NewsTypes, DigestHasUser
      <2>4. \A v \in Users, a \in AlertIds :
               owed'[v][a] = 0 \/ (waiting'[v][a].sev = waiting[v][a].sev /\ owed'[v][a] = owed[v][a])
          BY <2>1
      <2> QED BY <2>2, <2>3, <2>4, NewsDropped
  <1>5. ASSUME NEW u \in Users, NEW a \in AlertIds, ItemAges(u, a) PROVE NewsInv' /\ KeepsNews
      <2> DEFINE item == [waiting[u][a] EXCEPT !.old = TRUE]
                 items == [waiting[u] EXCEPT ![a] = item]
      <2>1. item \in Items /\ item.sev = waiting[u][a].sev
          BY NewsNumbers DEF Items
      <2>2. waiting' = [waiting EXCEPT ![u] = items] /\ UNCHANGED <<emailOn, prefs, telling, digester, choosing, crashes, owed>>
          BY <1>1, <1>5 DEF ItemAges
      <2> HIDE DEF item
      <2>3. items \in [AlertIds -> Items] /\ \A b \in AlertIds : items[b].sev = waiting[u][b].sev
          BY <1>1, <2>1
      <2> HIDE DEF items
      <2>4. /\ waiting' \in [Users -> [AlertIds -> Items]]
            /\ \A v \in Users : waiting'[v] = IF v = u THEN items ELSE waiting[v]
          BY <1>1, <2>2, <2>3
      <2>5. NewsInv'
          BY <2>2, <2>4 DEF NewsInv, NewsTypes, DigestHasUser
      <2>6. \A v \in Users, b \in AlertIds : waiting'[v][b].sev = waiting[v][b].sev /\ owed'[v][b] = owed[v][b]
          BY <2>2, <2>3, <2>4
      <2> QED BY <1>1, <2>2, <2>4, <2>5, <2>6, NewsDropped
  <1>6. ASSUME NEW u \in Users, NEW d \in Deliveries, NEW s \in Severities, SetPreferences(u, d, s),
               choosing' \in [Users -> Choices], UNCHANGED <<emailOn, telling, digester, crashes>>
        PROVE  NewsInv' /\ KeepsNews
      <2> DEFINE items == [a \in AlertIds |-> NoItem]
                 debts == [a \in AlertIds |-> 0]
                 choice == [prefs[u] EXCEPT !.delivery = d, !.min = s]
      <2>1. items \in [AlertIds -> Items] /\ debts \in [AlertIds -> Nat] /\ \A a \in AlertIds : debts[a] = 0
          BY NoNewsTypes
      <2>2. UNCHANGED <<waiting, owed>> \/ (waiting' = [waiting EXCEPT ![u] = items] /\ owed' = [owed EXCEPT ![u] = debts])
          BY <1>6 DEF SetPreferences
      <2>3. choice \in Preferences
          BY <1>1 DEF Preferences
      <2>4. prefs' = [prefs EXCEPT ![u] = choice]
          BY <1>1, <1>6 DEF SetPreferences
      <2> HIDE DEF items, debts, choice
      <2>5. prefs' \in [Users -> Preferences]
          BY <1>1, <2>3, <2>4
      <2>6. /\ waiting' \in [Users -> [AlertIds -> Items]] /\ owed' \in [Users -> [AlertIds -> Nat]]
            /\ \A v \in Users : (waiting'[v] = waiting[v] /\ owed'[v] = owed[v]) \/ owed'[v] = debts
          BY <1>1, <2>1, <2>2
      <2>7. NewsInv'
          BY <1>6, <2>5, <2>6 DEF NewsInv, NewsTypes, DigestHasUser
      <2>8. \A v \in Users, a \in AlertIds :
               owed'[v][a] = 0 \/ (waiting'[v][a].sev = waiting[v][a].sev /\ owed'[v][a] = owed[v][a])
          BY <2>1, <2>6
      <2> QED BY <2>6, <2>7, <2>8, NewsDropped
  <1>7. choosing \in [Users -> Choices]
      BY DEF NewsInv, NewsTypes
  <1>8. ASSUME NEW u \in Users, NEW d \in Deliveries, NEW s \in Severities, SetMyPreferences(u, d, s)
        PROVE  NewsInv' /\ KeepsNews
      <2> DEFINE was == [pc |-> "audit", delivery |-> prefs[u].delivery, min |-> prefs[u].min]
      <2>1. was \in Choices
          BY <1>1 DEF Choices, Preferences
      <2>2. /\ SetPreferences(u, d, s) /\ choosing' = [choosing EXCEPT ![u] = was]
            /\ UNCHANGED <<emailOn, telling, digester, crashes>>
          BY <1>8 DEF SetMyPreferences
      <2> HIDE DEF was
      <2>3. choosing' \in [Users -> Choices]
          BY <1>7, <2>1, <2>2
      <2> QED BY <1>6, <2>2, <2>3
  <1>9. ASSUME NEW u \in Users, choosing' = [choosing EXCEPT ![u] = NotChoosing]
        PROVE  choosing' \in [Users -> Choices]
      BY <1>7, <1>9, NoNewsTypes
  <1>10. ASSUME NEW u \in Users, SetMyPreferencesEnds(u) PROVE NewsInv' /\ KeepsNews
      <2>1. /\ choosing' = [choosing EXCEPT ![u] = NotChoosing]
            /\ UNCHANGED <<emailOn, prefs, waiting, telling, digester, crashes, owed>>
          BY <1>10 DEF SetMyPreferencesEnds
      <2>2. NewsInv'
          BY <1>9, <2>1 DEF NewsInv, NewsTypes, DigestHasUser
      <2> QED BY <1>1, <2>1, <2>2, NewsDropped
  <1>11. ASSUME NEW u \in Users, SetMyPreferencesUndone(u) PROVE NewsInv' /\ KeepsNews
      <2>1. /\ SetPreferences(u, choosing[u].delivery, choosing[u].min)
            /\ choosing' = [choosing EXCEPT ![u] = NotChoosing]
            /\ UNCHANGED <<emailOn, telling, digester, crashes>>
          BY <1>11 DEF SetMyPreferencesUndone
      <2>2. choosing[u].delivery \in Deliveries /\ choosing[u].min \in Severities
          BY <1>7 DEF Choices
      <2> QED BY <1>6, <1>9, <2>1, <2>2
  <1> QED BY <1>2, <1>3, <1>4, <1>5, <1>8, <1>10, <1>11 DEF Choose

-----------------------------------------------------------------------------
(* The inbox with its mail.                                                *)

EmailInv == AlertInv /\ MailInv /\ NewsInv

\* Telling people moves producers on; a crash ends producers and requests.
LEMMA TellKeepsInbox ==
    ASSUME AlertInv, Tell \/ Crash
    PROVE  AlertInv'
  <1>1. raising \in [Producers -> Raises] /\ acting \in [Actors -> Actions]
      BY DEF AlertInv, AlertTypes
  <1>2. ASSUME NEW p \in Producers, NEW r \in Raises, r.pc \in {"idle", "telling"} \/ r = raising[p],
               raising' = [raising EXCEPT ![p] = r],
               UNCHANGED <<alertRow, userState, acting, calm, reopened, seen, crossed>>
        PROVE  AlertInv'
      <2>1. raising' \in [Producers -> Raises]
          BY <1>1, <1>2
      <2>2. \A q \in Producers : raising'[q].pc \in {"insert", "again"} => raising'[q].key \notin calm'
          BY <1>1, <1>2 DEF AlertInv, RaisesAreCurrent
      <2> QED BY <1>1, <1>2, <2>1, <2>2, QuietStep
  <1>3. ASSUME NEW p \in Producers, AlertRaised(p) PROVE AlertInv'
      <2> DEFINE telling1 == [raising[p] EXCEPT !.pc = "telling"]
      <2>1. telling1 \in Raises /\ telling1.pc = "telling"
          BY <1>1 DEF Raises
      <2>2. PICK r \in {NotRaising, telling1} : raising' = [raising EXCEPT ![p] = r]
          BY <1>1, <1>3 DEF AlertRaised
      <2> HIDE DEF telling1
      <2>3. r \in Raises /\ r.pc \in {"idle", "telling"}
          BY <2>1, IdleTypes
      <2>4. UNCHANGED <<alertRow, userState, acting, calm, reopened, seen, crossed>>
          BY <1>3 DEF AlertRaised
      <2> QED BY <1>2, <2>2, <2>3, <2>4
  <1>4. ASSUME NEW p \in Producers, NEW t \in telling[p], ToldOne(p, t) PROVE AlertInv'
      <2>1. PICK r \in {NotRaising, raising[p]} : raising' = [raising EXCEPT ![p] = r]
          BY <1>4 DEF ToldOne
      <2>2. r \in Raises /\ (r.pc \in {"idle", "telling"} \/ r = raising[p])
          BY <1>1, IdleTypes
      <2>3. UNCHANGED <<alertRow, userState, acting, calm, reopened, seen, crossed>>
          BY <1>4 DEF ToldOne
      <2> QED BY <1>2, <2>1, <2>2, <2>3
  <1>5. ASSUME Crash PROVE AlertInv'
      <2>1. /\ raising' = [p \in Producers |-> NotRaising] /\ acting' = [v \in Actors |-> NotActing]
            /\ UNCHANGED <<alertRow, userState, calm, reopened, seen, crossed>>
          BY <1>5 DEF Crash
      <2>2. raising' \in [Producers -> Raises] /\ acting' \in [Actors -> Actions]
          BY <2>1, IdleTypes
      <2>3. \A q \in Producers : raising'[q].pc = "idle"
          BY <2>1, IdleTypes
      <2> QED BY <2>1, <2>2, <2>3, QuietStep
  <1> QED BY <1>3, <1>4, <1>5 DEF Tell, TellOne, TellFails

\* A message for a recipient, or for a digest, is queued; the rest of telling
\* and of digesting leaves the queue alone.
LEMMA TellKeepsMail ==
    ASSUME MailInv, NewsInv, Tell \/ Digest
    PROVE  MailInv'
  <1>1. ASSUME NEW p \in Producers, AlertRaised(p) \/ TellFails(p) PROVE MailInv'
      BY <1>1, MailIdle DEF AlertRaised, TellFails
  <1>2. ASSUME NEW p \in Producers, TellOne(p) PROVE MailInv'
      <2>1. PICK r \in telling[p] : /\ \/ Unused # {} /\ Enqueue(r[1])
                                       \/ UNCHANGED queue
                                    /\ UNCHANGED <<worker, delivered, unsure>>
          BY <1>2 DEF TellOne
      <2>2. r \in Users \X Deliveries \X Severities
          BY DEF NewsInv, NewsTypes
      <2>3. r[1] \in Users \cup {NoMail.to}
          BY <2>2
      <2> QED BY <2>1, <2>3, EnqueueKeeps, MailIdle
  <1>3. ASSUME NEW mode \in Digests, QueueDigest(mode) PROVE MailInv'
      <2>1. /\ Unused # {} /\ Enqueue(digester[mode].user) /\ digester[mode].user \in Users
            /\ UNCHANGED <<worker, delivered, unsure>>
          BY <1>3 DEF QueueDigest, NewsInv, DigestHasUser
      <2> QED BY <2>1, EnqueueKeeps
  <1>4. ASSUME NEW mode \in Digests,
               \/ RunDigest(mode) \/ DeleteDigestItemsOlderThan(mode) \/ DropFails(mode)
               \/ UsersWithDigestItems(mode)
               \/ \E u \in Users : DigestGet(mode, u)
               \/ PendingDigest(mode) \/ QueueDigestFails(mode) \/ ClearDigest(mode) \/ ClearDigestFails(mode)
        PROVE  MailInv'
      <2>1. UNCHANGED <<queue, worker, delivered, unsure>>
          BY <1>4 DEF RunDigest, DeleteDigestItemsOlderThan, DropFails, UsersWithDigestItems, DigestGet,
                      PendingDigest, QueueDigestFails, ClearDigest, ClearDigestFails
      <2> QED BY <2>1, MailIdle
  <1> QED BY <1>1, <1>2, <1>3, <1>4 DEF Tell, Digest

\* The worker and time change the queue and nothing else.
LEMMA WorkKeeps ==
    ASSUME EmailInv, Work \/ DeleteOlderThan \/ \E m \in MailIds : Due(m) \/ MailAges(m)
    PROVE  EmailInv' /\ KeepsNews
  <1>1. UNCHANGED alertVars /\ UNCHANGED <<emailOn, prefs, waiting, telling, digester, choosing, crashes, owed>>
      BY DEF Work, ProcessOnce, Claim, Deliver, DeliverUnrecorded, Send, DeleteOlderThan, Due, MailAges
  <1>2. MailInv'
      BY ProcessOnceKeeps, ClaimKeeps, SendKeeps, DeliverKeeps, DeliverUnrecordedKeeps, QueueTimeKeeps
         DEF EmailInv, Work
  <1>3. NewsInv' /\ KeepsNews
      BY <1>1, NewsIdle DEF EmailInv
  <1>4. AlertInv'
      <2>1. \A p \in Producers : raising'[p].pc \in {"insert", "again"} => raising'[p].key \notin calm'
          BY <1>1 DEF alertVars, EmailInv, AlertInv, RaisesAreCurrent
      <2> QED BY <1>1, <2>1, QuietStep DEF alertVars, EmailInv, AlertInv, AlertTypes
  <1> QED BY <1>2, <1>3, <1>4 DEF EmailInv

\* Every step keeps the invariant and the news that wait.
LEMMA EmailStep ==
    ASSUME EmailInv, [EmailNext]_<<alertVars, emailVars>>
    PROVE  EmailInv' /\ KeepsNews
  <1>0. AlertInv /\ MailInv /\ NewsInv
      BY DEF EmailInv
  <1>1. ASSUME UNCHANGED alertVars PROVE AlertInv'
      <2>1. \A p \in Producers : raising'[p].pc \in {"insert", "again"} => raising'[p].key \notin calm'
          BY <1>0, <1>1 DEF alertVars, AlertInv, RaisesAreCurrent
      <2> QED BY <1>0, <1>1, <2>1, QuietStep DEF alertVars, AlertInv, AlertTypes
  <1>2. CASE UNCHANGED <<alertVars, emailVars>>
      BY <1>0, <1>1, <1>2, MailIdle, NewsIdle DEF EmailInv, emailVars
  <1>3. CASE InboxMoves /\ UNCHANGED emailVars
      <2>1. AlertInv'
          BY <1>0, <1>3, ProducersKeep, PeopleKeep, RetentionKeeps DEF InboxMoves
      <2> QED BY <1>0, <1>3, <2>1, MailIdle, NewsIdle DEF EmailInv, emailVars
  <1>4. CASE Tell
      BY <1>0, <1>4, TellKeepsInbox, TellKeepsMail, TellKeepsNews DEF EmailInv
  <1>5. CASE Work \/ DeleteOlderThan \/ \E m \in MailIds : Due(m) \/ MailAges(m)
      BY <1>5, WorkKeeps
  <1>6. CASE Digest
      <2>1. UNCHANGED alertVars
          BY <1>6 DEF Digest, RunDigest, DeleteDigestItemsOlderThan, DropFails, UsersWithDigestItems, DigestGet,
                      PendingDigest, QueueDigest, QueueDigestFails, ClearDigest, ClearDigestFails
      <2> QED BY <1>0, <1>1, <1>6, <2>1, TellKeepsMail, DigestKeeps DEF EmailInv
  <1>7. CASE Crash
      BY <1>0, <1>7, TellKeepsInbox, CrashKeeps, RestKeepsNews DEF EmailInv
  <1>8. CASE ExpireAlerts
      <2>1. AlertInv'
          BY <1>0, <1>8, RetentionKeeps DEF ExpireAlerts
      <2>2. MailInv'
          BY <1>0, <1>8, MailIdle DEF ExpireAlerts
      <2> QED BY <1>0, <1>8, <2>1, <2>2, RestKeepsNews DEF EmailInv
  <1>9. CASE SwitchEmail \/ Choose \/ \E u \in Users, a \in AlertIds : ItemAges(u, a)
      <2>1. UNCHANGED alertVars /\ UNCHANGED <<queue, worker, delivered, unsure>>
          BY <1>9 DEF SwitchEmail, ItemAges, Choose, SetMyPreferences, SetMyPreferencesEnds, SetMyPreferencesUndone
      <2> QED BY <1>0, <1>1, <1>9, <2>1, MailIdle, RestKeepsNews DEF EmailInv
  <1> QED BY <1>2, <1>3, <1>4, <1>5, <1>6, <1>7, <1>8, <1>9 DEF EmailNext

\* The inductive invariant of the inbox, the mail queue and the digests.
THEOREM EmailInvariance == EmailSpec => []EmailInv
  <1>1. Init /\ EmailInit /\ emailOn \in BOOLEAN /\ prefs \in [Users -> Preferences] => EmailInv
      BY AlertsInitInv, MailInitInv, NewsInitInv DEF EmailInv
  <1>2. EmailInv /\ [EmailNext]_<<alertVars, emailVars>> => EmailInv'
      BY EmailStep
  <1> QED BY <1>1, <1>2, PTL DEF EmailSpec

\* Types of the inbox, its requests and producers, and of the mail, whatever
\* interleaves.
THEOREM EmailTypeCorrect == EmailSpec => [](AlertTypes /\ EmailTypes)
  <1>1. EmailInv => AlertTypes /\ EmailTypes
      BY DEF EmailInv, AlertInv, MailInv, NewsInv, EmailTypes
  <1> QED BY <1>1, EmailInvariance, PTL

\* A condition never has two open alerts, however raises of it race, and one
\* that cleared has none that was not reopened by an undo (raiseOnce,
\* ResolveByDedupeKey, Reopen), with any number of producers and alerts.
THEOREM ConditionsHaveOneOpenAlert == EmailSpec => []OneOpenPerCondition
  <1>1. EmailInv => OneOpenPerCondition
      <2> SUFFICES ASSUME EmailInv, NEW k \in Keys
                   PROVE  Cardinality(OpenFor(k)) <= 1 /\ (k \in calm => OpenFor(k) \subseteq reopened)
          BY DEF OneOpenPerCondition
      <2>1. k # NoKey /\ OpenOnce /\ CalmIsQuiet
          BY AlertsAssumption DEF EmailInv, AlertInv
      <2>2. \A a, b \in OpenFor(k) : a = b
          BY <2>1 DEF OpenFor, OpenOnce
      <2>3. k \in calm => OpenFor(k) \subseteq reopened
          BY <2>1 DEF OpenFor, CalmIsQuiet
      <2>4. CASE OpenFor(k) = {}
          BY <2>3, <2>4, FS_EmptySet
      <2>5. CASE OpenFor(k) # {}
          <3>1. PICK a : a \in OpenFor(k)
              BY <2>5
          <3>2. OpenFor(k) = {a}
              BY <2>2, <3>1
          <3>3. Cardinality({a}) = 1
              BY FS_Singleton
          <3> QED BY <2>3, <3>2, <3>3
      <2> QED BY <2>4, <2>5
  <1> QED BY <1>1, EmailInvariance, PTL

\* What a person has read was on their page at its present severity or a worse
\* one, or the read mark was written over a severity the page had not shown and
\* nothing has made the alert unread since (raiseOnce makes an escalation unread
\* again, whatever requests and undos are under way).
THEOREM ReadAlertsWereSeen == EmailSpec => []ReadWasSeen
  <1>1. EmailInv => ReadWasSeen
      BY DEF EmailInv, AlertInv
  <1> QED BY <1>1, EmailInvariance, PTL

\* A message reaches the relay at most once more often than the queue misses a
\* delivery of it (the relay's answer, or the record, lost), for every batch
\* size, number of attempts and crash.
THEOREM MailIsSentOnce == EmailSpec => []MailSentOnce
  <1>1. EmailInv => MailSentOnce
      BY DEF EmailInv, MailInv, DeliveriesCounted, MailSentOnce
  <1> QED BY <1>1, EmailInvariance, PTL

\* News leaves a digest's waiting list untold only if they came in after the
\* digest under way had read the item they repeat (digestFor).
THEOREM DigestsKeepNews == EmailSpec => DigestNewsKept
  <1>1. EmailInv /\ [EmailNext]_<<alertVars, emailVars>> => [KeepsNews]_emailVars
      BY EmailStep
  <1> QED BY <1>1, EmailInvariance, PTL DEF EmailSpec, DigestNewsKept, KeepsNews
=============================================================================
