----------------------------- MODULE Addresses -----------------------------
(***************************************************************************)
(* Whose mail goes where: internal/email's addresses over users.email and  *)
(* the email_confirmations table.  An AD-backed account takes its address  *)
(* from the directory at sign-in; a local account's owner changes it by    *)
(* opening a link mailed to the new address; an Admin sets it at once or   *)
(* asks its owner to confirm.  Requests interleave between statements.     *)
(*                                                                         *)
(* Left out: the form of addresses and tokens (a token is a number that    *)
(* only the mail carrying it reveals) and the wording of the mail.         *)
(***************************************************************************)
EXTENDS Naturals, FiniteSets

CONSTANTS
    Accounts,      \* users
    DirectoryBacked, \* the accounts with an AD identity
    Addrs,
    NoAddr,
    Slots,         \* BOUND: requests under way at the same time
    MaxTokens      \* BOUND: confirmation links ever made

ASSUME AddressesAssumption ==
    /\ DirectoryBacked \subseteq Accounts
    /\ NoAddr \notin Addrs
    /\ MaxTokens \in Nat

VARIABLES
    address,      \* users.email and email_source
    confirmation, \* email_confirmations: at most one row per user
    mailed,       \* links sent out: a token, for whom and to which address
    request,      \* the requests under way
    tokens,       \* tokens made so far
    proven        \* history: addresses whose owner opened the link sent there

addressVars == <<address, confirmation, mailed, request, tokens, proven>>

Unset == [addr |-> NoAddr, source |-> "none"]
NoChange == [token |-> 0, addr |-> NoAddr, source |-> "none", recent |-> FALSE, expired |-> FALSE]
NoRequest == [pc |-> "idle", kind |-> "none", user |-> CHOOSE u \in Accounts : TRUE,
              next |-> Unset, before |-> Unset, token |-> 0]

AddressesInit ==
    /\ address = [u \in Accounts |-> Unset]
    /\ confirmation = [u \in Accounts |-> NoChange]
    /\ mailed = {}
    /\ request = [r \in Slots |-> NoRequest]
    /\ tokens = 0
    /\ proven = {}

IsDirectory(u) == u \in DirectoryBacked

PendingConfirmation(u) == confirmation[u].token # 0

\* DeleteConfirmation goes by user: whatever is pending now is removed.
DeleteConfirmation(u) == confirmation' = [confirmation EXCEPT ![u] = NoChange]

\* SetLocal leaves AD-backed accounts alone.
SetLocal(u, value) == IF IsDirectory(u) THEN address ELSE [address EXCEPT ![u] = value]

Start(r, kind, u, next, pc, token) ==
    /\ request[r].pc = "idle"
    /\ request' = [request EXCEPT ![r] = [pc |-> pc, kind |-> kind, user |-> u, next |-> next,
                                          before |-> address[u], token |-> token]]

-----------------------------------------------------------------------------
(* Asking for a confirmation.                                              *)

CoolingDown(u) == PendingConfirmation(u) /\ confirmation[u].recent

\* The owner asks: not for a directory account, nor the address in use, nor
\* within a minute of the last request.
RequestMyAddress(r, u, a) ==
    /\ ~IsDirectory(u)
    /\ address[u].addr # a
    /\ ~CoolingDown(u)
    /\ tokens < MaxTokens
    /\ Start(r, "ask", u, [addr |-> a, source |-> "self"], "put", 0)
    /\ UNCHANGED <<address, confirmation, mailed, tokens, proven>>

\* An Admin asks the owner to confirm.
SetUserAddressConfirmed(r, u, a) ==
    /\ ~IsDirectory(u)
    /\ address[u].addr # a
    /\ ~CoolingDown(u)
    /\ tokens < MaxTokens
    /\ Start(r, "ask", u, [addr |-> a, source |-> "admin"], "put", 0)
    /\ UNCHANGED <<address, confirmation, mailed, tokens, proven>>

\* PutConfirmation replaces an earlier pending change, and its token with it.
PutConfirmation(r) ==
    LET q == request[r] IN
    /\ q.pc = "put"
    /\ tokens < MaxTokens
    /\ tokens' = tokens + 1
    /\ confirmation' = [confirmation EXCEPT ![q.user] =
           [token |-> tokens + 1, addr |-> q.next.addr, source |-> q.next.source,
            recent |-> TRUE, expired |-> FALSE]]
    /\ request' = [request EXCEPT ![r].pc = "mail", ![r].token = tokens + 1]
    /\ UNCHANGED <<address, mailed, proven>>

\* The link goes to the NEW address ...
MailLink(r) ==
    LET q == request[r] IN
    /\ q.pc = "mail"
    /\ mailed' = mailed \cup {[token |-> q.token, user |-> q.user, addr |-> q.next.addr]}
    /\ request' = [request EXCEPT ![r].pc = "audit"]
    /\ UNCHANGED <<address, confirmation, tokens, proven>>

\* ... and what cannot be mailed or recorded is withdrawn.
Withdraw(r) ==
    LET q == request[r] IN
    /\ q.kind = "ask" /\ q.pc \in {"mail", "audit"}
    /\ DeleteConfirmation(q.user)
    /\ request' = [request EXCEPT ![r] = NoRequest]
    /\ UNCHANGED <<address, mailed, tokens, proven>>

AskRecorded(r) ==
    /\ request[r].kind = "ask" /\ request[r].pc = "audit"
    /\ request' = [request EXCEPT ![r] = NoRequest]
    /\ UNCHANGED <<address, confirmation, mailed, tokens, proven>>

-----------------------------------------------------------------------------
(* Changing the address.                                                   *)

\* Mutant: a link works for whoever opens it.
LookupAnyones(u, t) == {c \in Accounts : t # 0 /\ confirmation[c].token = t /\ ~confirmation[c].expired}

\* lookup: the pending change of a token, if it is this user's and unexpired.
Lookup(u, t) == {c \in {u} : t # 0 /\ confirmation[c].token = t /\ ~confirmation[c].expired}

\* The signed-in person opens a link they were sent and presses the button.
ConfirmAddress(r, u, m) ==
    /\ m \in mailed
    /\ ~IsDirectory(u)
    /\ \E c \in Lookup(u, m.token) :
         Start(r, "set", u, [addr |-> confirmation[c].addr, source |-> confirmation[c].source], "set", m.token)
    /\ proven' = IF m.user = u THEN proven \cup {<<u, m.addr>>} ELSE proven
    /\ UNCHANGED <<address, confirmation, mailed, tokens>>

\* The owner, or an Admin, removes the address.
ClearMyAddress(r, u) ==
    /\ ~IsDirectory(u)
    /\ Start(r, "set", u, Unset, "set", 0)
    /\ UNCHANGED <<address, confirmation, mailed, tokens, proven>>

\* An Admin sets the address at once.
SetUserAddress(r, u, a) ==
    /\ ~IsDirectory(u)
    /\ address[u] # [addr |-> a, source |-> "admin"]
    /\ Start(r, "set", u, [addr |-> a, source |-> "admin"], "set", 0)
    /\ UNCHANGED <<address, confirmation, mailed, tokens, proven>>

\* setLocalAudited: no change is not audited, and goes on to the last step.
SetLocalAudited(r) ==
    LET q == request[r] IN
    /\ q.pc = "set"
    /\ address' = SetLocal(q.user, q.next)
    /\ request' = [request EXCEPT ![r].pc = IF address[q.user] = q.next THEN "done" ELSE "audit"]
    /\ UNCHANGED <<confirmation, mailed, tokens, proven>>

SetRecorded(r) ==
    /\ request[r].kind = "set" /\ request[r].pc = "audit"
    /\ request' = [request EXCEPT ![r].pc = "done"]
    /\ UNCHANGED <<address, confirmation, mailed, tokens, proven>>

\* The undo puts back the address the request read when it began.
SetReverted(q) == q.before

\* No audit record: the old address is put back and the link stays usable.
SetUnrecorded(r) ==
    LET q == request[r] IN
    /\ q.kind = "set" /\ q.pc = "audit"
    /\ address' = SetLocal(q.user, SetReverted(q))
    /\ request' = [request EXCEPT ![r] = NoRequest]
    /\ UNCHANGED <<confirmation, mailed, tokens, proven>>

\* A change that was made ends whatever was waiting to be confirmed.
Supersede(r) ==
    /\ request[r].pc = "done"
    /\ DeleteConfirmation(request[r].user)
    /\ request' = [request EXCEPT ![r] = NoRequest]
    /\ UNCHANGED <<address, mailed, tokens, proven>>

-----------------------------------------------------------------------------
(* The directory, and time.                                                *)

\* At sign-in the directory's address is stored, or cleared if it has none.
RecordDirectoryEmail(u, a) ==
    LET value == IF a = NoAddr THEN Unset ELSE [addr |-> a, source |-> "directory"] IN
    /\ IsDirectory(u)
    /\ address[u] # value
    /\ address' = [address EXCEPT ![u] = value]
    /\ UNCHANGED <<confirmation, mailed, request, tokens, proven>>

CooldownEnds(u) ==
    /\ confirmation[u].recent
    /\ confirmation' = [confirmation EXCEPT ![u].recent = FALSE]
    /\ UNCHANGED <<address, mailed, request, tokens, proven>>

LinkExpires(u) ==
    /\ PendingConfirmation(u) /\ ~confirmation[u].recent /\ ~confirmation[u].expired
    /\ confirmation' = [confirmation EXCEPT ![u].expired = TRUE]
    /\ UNCHANGED <<address, mailed, request, tokens, proven>>

DeleteExpiredConfirmations ==
    /\ \E u \in Accounts : confirmation[u].expired
    /\ confirmation' = [u \in Accounts |-> IF confirmation[u].expired THEN NoChange ELSE confirmation[u]]
    /\ UNCHANGED <<address, mailed, request, tokens, proven>>

-----------------------------------------------------------------------------
AddressCalls ==
    \E u \in Accounts, r \in Slots :
        \/ \E a \in Addrs : RequestMyAddress(r, u, a) \/ SetUserAddressConfirmed(r, u, a) \/ SetUserAddress(r, u, a)
        \/ \E m \in mailed : ConfirmAddress(r, u, m)
        \/ ClearMyAddress(r, u)

AddressSteps ==
    \/ \E r \in Slots : \/ PutConfirmation(r) \/ MailLink(r) \/ Withdraw(r) \/ AskRecorded(r)
                        \/ SetLocalAudited(r) \/ SetRecorded(r) \/ SetUnrecorded(r) \/ Supersede(r)
    \/ DeleteExpiredConfirmations

TimeAndSignIns ==
    \E u \in Accounts : CooldownEnds(u) \/ LinkExpires(u) \/ \E a \in Addrs \cup {NoAddr} : RecordDirectoryEmail(u, a)

AddressesNext == AddressCalls \/ AddressSteps \/ TimeAndSignIns

AddressesSpec == AddressesInit /\ [][AddressesNext]_addressVars

-----------------------------------------------------------------------------
(* PROPERTIES                                                              *)

\* Addresses as they are stored and as requests carry them.
StoredAddress(sources) == [addr : Addrs \cup {NoAddr}, source : sources]
LocalSources == {"none", "self", "admin"}

Confirmations == [token : Nat, addr : Addrs \cup {NoAddr}, source : LocalSources, recent : BOOLEAN, expired : BOOLEAN]
AddressRequests ==
    [pc : {"idle", "put", "mail", "set", "audit", "done"}, kind : {"none", "ask", "set"},
     user : Accounts \cup {NoRequest.user}, next : StoredAddress(LocalSources),
     before : StoredAddress(LocalSources \cup {"directory"}), token : Nat]

\* The state is of the types of the tables and of the requests.
AddressTypes ==
    /\ address \in [Accounts -> StoredAddress(LocalSources \cup {"directory"})]
    /\ confirmation \in [Accounts -> Confirmations]
    /\ mailed \subseteq [token : Nat, user : Accounts, addr : Addrs \cup {NoAddr}]
    /\ request \in [Slots -> AddressRequests]
    /\ tokens \in Nat
    /\ proven \subseteq Accounts \X (Addrs \cup {NoAddr})

\* A local account's address marked as confirmed by its owner is one to which a
\* link for this account was mailed and which this account's owner opened,
\* whatever requests, replacements, withdrawals, Admin changes and undone
\* changes ran at the same time; an AD-backed account's address comes from the
\* directory only (ConfirmAddress, lookup, setLocalAudited, SetDirectory).
AddressWasConfirmed ==
    \A u \in Accounts :
        /\ address[u].source = "self" => <<u, address[u].addr>> \in proven
        /\ address[u].source \in IF IsDirectory(u) THEN {"none", "directory"} ELSE {"none", "self", "admin"}
=============================================================================
