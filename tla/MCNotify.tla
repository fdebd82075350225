------------------------------ MODULE MCNotify ------------------------------
(* The inbox, the mail queue, the digests and the addresses, one subject   *)
(* at a time: the subject says which processes move, so that the state     *)
(* spaces add up instead of multiplying.                                   *)
EXTENDS Email, Addresses

CONSTANTS u1, u2, p1

VARIABLES
    subject,
    turns     \* BOUND: calls that may still begin

MCAudiences == {{"admins", "group"}, {u2}}

vars == <<alertVars, emailVars, addressVars, subject, turns>>

Pref(d, s) == [delivery |-> d, min |-> s, addr |-> TRUE]

MCInit ==
    /\ Init
    /\ EmailInit
    /\ AddressesInit
    /\ subject \in {"race", "inbox", "mail", "digest", "address"}
    /\ turns = CASE subject = "race" -> 5 [] subject = "inbox" -> 3 [] subject = "mail" -> 1 [] OTHER -> 3
    /\ emailOn = (subject \in {"mail", "digest"})
    /\ prefs = [u \in Users |->
           CASE subject = "mail" -> Pref("immediate", 1)
             [] subject = "digest" /\ u = u1 -> Pref("hourly", 1)
             [] OTHER -> [delivery |-> "immediate", min |-> 2, addr |-> FALSE]]

Call(A) == A /\ turns > 0 /\ turns' = turns - 1
Step(A) == A /\ UNCHANGED turns

Race ==
    /\ subject = "race"
    /\ \/ Call(ProducerCalls) /\ UNCHANGED emailVars
       \/ Step(RaiseSteps) /\ UNCHANGED emailVars
       \/ Step(Tell)

Inbox ==
    /\ subject = "inbox"
    /\ \/ Call(ProducerCalls \/ Requests \/ \E a \in AlertIds : Ages(a)) /\ UNCHANGED emailVars
       \/ Step(RaiseSteps \/ RequestSteps) /\ UNCHANGED emailVars
       \/ Step(Tell \/ ExpireAlerts)
    /\ \A p \in Producers \ {p1} : raising'[p] = NotRaising

Mail ==
    /\ subject = "mail"
    /\ \/ Call(Raise(p1, NoKey, 1, {"admins", "group"})) /\ UNCHANGED emailVars
       \/ Step(RaiseSteps) /\ UNCHANGED emailVars
       \/ Step(Tell \/ Work \/ SwitchEmail \/ Crash \/ DeleteOlderThan)
       \/ Step(\E m \in MailIds : Due(m) \/ MailAges(m))

Digesting ==
    /\ subject = "digest"
    /\ \/ Call(\/ \E k \in Keys, s \in Severities :
                  Raise(p1, k, s, {"admins"}) \/ RaiseRepeat(p1, k, s, {"admins"})
            \/ \E k \in Keys : ResolveCondition(k)) /\ UNCHANGED emailVars
       \/ Step(RaiseSteps) /\ UNCHANGED emailVars
       \/ Step(Tell \/ Digest \/ Crash)
       \/ Call(\E a \in AlertIds : ItemAges(u1, a))
       \/ Call(\E d \in Deliveries : SetMyPreferences(u1, d, 2))
       \/ Step(SetMyPreferencesEnds(u1) \/ SetMyPreferencesUndone(u1))

Addressing ==
    /\ subject = "address"
    /\ Call(AddressCalls \/ TimeAndSignIns) \/ Step(AddressSteps)

MCNext ==
    /\ \/ (Race \/ Inbox \/ Mail \/ Digesting) /\ UNCHANGED addressVars
       \/ Addressing /\ UNCHANGED <<alertVars, emailVars>>
    /\ UNCHANGED subject

MCSpec == MCInit /\ [][MCNext]_vars /\ Delivers
=============================================================================
