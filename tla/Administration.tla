--------------------------- MODULE Administration ---------------------------
(***************************************************************************)
(* What people change through the pages, and its audit record: tiers and   *)
(* local accounts, application groups with their AD mappings and manual    *)
(* members, themes and retention, profiles, nodes (internal/rbac, groups,  *)
(* settings, profiles, nodes, audit).  The handler resolves who asks, the  *)
(* service checks the rule against what it reads, the repository writes,   *)
(* and the audit record comes last: most services put back what they read  *)
(* when it cannot be written, some have nothing to put back.  Requests     *)
(* interleave between these steps.  Beside them the AD memberships of the  *)
(* groups are cached, at sign-ins and when a group is mapped.              *)
(*                                                                         *)
(* A row is one key with a value; an absent password or display name is    *)
(* the one its account was created with, in the statement that writes the  *)
(* tier.  Left out: the form of names and colours (a request that does not *)
(* validate changes nothing), the pages, and a cached DN that by now names *)
(* another person.                                                         *)
(***************************************************************************)
EXTENDS Integers, FiniteSets

CONSTANTS
    Staff,       \* users rows
    LocalStaff,  \* those that are local-only accounts
    AppGroups,   \* application groups
    AdGroups,    \* AD groups
    Profiles,
    Nodes,
    Forms,       \* BOUND: requests under way at the same time
    Values       \* names and contents

ASSUME AdministrationAssumption == LocalStaff \subseteq Staff /\ "absent" \notin Values

VARIABLES
    value,    \* the rows
    made,     \* keys that were created once: ids are not used again
    form,     \* the requests under way
    cached,   \* user_ad_group_membership
    inAd,     \* who is in which AD group
    refresh,  \* RefreshUser under way, by user
    said,     \* history: each key's value by the audit log; a first AD login needs no record
    ever,     \* history: the values it has recorded
    lapses,   \* history: audit records that could not be written
    crossed,  \* history: subjects two requests changed at the same time
    kept,     \* history: subjects left changed without a record
    wasIn     \* history: who was ever in which AD group

adminVars == <<value, made, form, cached, inAd, refresh, said, ever, lapses, crossed, kept, wasIn>>

Absent == "absent"
None == "none"  \* in place of an id a key has not
BreakGlass == "super"

\* adminRange, in order, and the tier outside it.
adminRange == <<"read_only", "developer", "power_dev">>
Tiers == {"read_only", "developer", "power_dev", "admin"}

RowKeys ==
    ({"tier", "password", "display", "theme"} \X Staff \X {None})
    \cup ({"default theme", "log retention", "alert retention"} \X {None} \X {None})
    \cup ({"group"} \X AppGroups \X {None})
    \cup ({"mapping"} \X AppGroups \X AdGroups)
    \cup ({"member"} \X AppGroups \X Staff)
    \cup ({"profile"} \X Profiles \X {None})
    \cup ({"node", "comment", "interface"} \X Nodes \X {None})

\* A group's rows go together.
Subject(k) == IF k[1] \in {"mapping", "member"} THEN <<"group", k[2], None>> ELSE k

NoForm == [pc |-> "idle", op |-> "none", who |-> BreakGlass, tier |-> "read_only",
           key |-> <<"default theme", None, None>>, from |-> Absent, to |-> Absent, found |-> {}]

AdministrationInit ==
    /\ form = [r \in Forms |-> NoForm]
    /\ refresh = [u \in Staff |-> [pc |-> "idle", dns |-> {}]]
    /\ cached = {}
    /\ wasIn = inAd
    /\ said = value
    /\ ever = [k \in RowKeys |-> {value[k]}]
    /\ made = {k \in RowKeys : value[k] # Absent}
    /\ lapses = 0
    /\ crossed = {}
    /\ kept = {}

directoryVars == <<cached, inAd, refresh, wasIn>>
historyVars == <<said, ever, lapses, crossed, kept>>

-----------------------------------------------------------------------------
(* rbac: who may do what.                                                  *)

IsSuper(f) == f.who = BreakGlass
IsAdmin(f) == IsSuper(f) \/ f.tier = "admin"
IsPowerDev(f) == IsAdmin(f) \/ f.tier = "power_dev"

RangeIndex(t) == {i \in DOMAIN adminRange : adminRange[i] = t}

\* An Admin moves others one step within the range; the SuperAdmin does as it
\* likes.
CanElevate(f, from, to) ==
    \/ IsSuper(f)
    \/ /\ f.tier = "admin"
       /\ \E i \in RangeIndex(from), j \in RangeIndex(to) : j - i \in {1, -1}

CanManageNodes(f) == IsAdmin(f)
CanEditNodeComment(f) == IsPowerDev(f)
CanViewSettings(f) == IsAdmin(f)
CanCreateLocalAccount(f) == IsAdmin(f)
CanResetLocalAccountPassword(f) == IsAdmin(f)
CanManageProfiles(f) == IsPowerDev(f)
CanManageGroups(f) == IsPowerDev(f)
CanManageGroupLocalMembers(f) == IsAdmin(f)

-----------------------------------------------------------------------------
(* Handlers: the tier of whoever asks is read now and trusted from here on.*)

ActorFromIdentity(who) == IF who = BreakGlass THEN "read_only" ELSE value[<<"tier", who, None>>]

Arrives(r, who, op, key, to) ==
    /\ form[r] = NoForm
    /\ who # BreakGlass => ActorFromIdentity(who) # Absent
    /\ form' = [form EXCEPT ![r] = [NoForm EXCEPT !.pc = "service", !.op = op, !.who = who,
                                    !.tier = ActorFromIdentity(who), !.key = key, !.to = to]]
    /\ UNCHANGED <<value, made, directoryVars, historyVars>>

HandleElevateUser(r, who) == \E u \in Staff, t \in Tiers : Arrives(r, who, "elevate", <<"tier", u, None>>, t)
HandleCreateLocalAccount(r, who) == \E u \in LocalStaff, t \in Tiers : Arrives(r, who, "create account", <<"tier", u, None>>, t)
HandleResetLocalAccountPassword(r, who) == \E u \in Staff, v \in Values : Arrives(r, who, "reset password", <<"password", u, None>>, v)
HandleUpdateDisplayName(r, who) == who \in LocalStaff /\ \E v \in Values : Arrives(r, who, "own", <<"display", who, None>>, v)
HandleChangeOwnPassword(r, who) == who \in LocalStaff /\ \E v \in Values : Arrives(r, who, "own", <<"password", who, None>>, v)
HandleUpdateTheme(r, who) == who \in Staff /\ \E v \in Values : Arrives(r, who, "own theme", <<"theme", who, None>>, v)
HandleUpdateDefaultTheme(r, who) == \E v \in Values : Arrives(r, who, "setting", <<"default theme", None, None>>, v)
HandleUpdateContainerLogRetention(r, who) == \E v \in Values : Arrives(r, who, "setting", <<"log retention", None, None>>, v)
HandleUpdateAlertRetention(r, who) == \E v \in Values : Arrives(r, who, "setting", <<"alert retention", None, None>>, v)
HandleCreateGroup(r, who) == \E g \in AppGroups, v \in Values : Arrives(r, who, "create group", <<"group", g, None>>, v)
HandleRenameGroup(r, who) == \E g \in AppGroups, v \in Values : Arrives(r, who, "rename group", <<"group", g, None>>, v)
HandleDeleteGroup(r, who) == \E g \in AppGroups : Arrives(r, who, "delete group", <<"group", g, None>>, Absent)
HandleMapADGroup(r, who) == \E g \in AppGroups, d \in AdGroups : Arrives(r, who, "map", <<"mapping", g, d>>, "yes")
HandleUnmapADGroup(r, who) == \E g \in AppGroups, d \in AdGroups : Arrives(r, who, "unmap", <<"mapping", g, d>>, Absent)
HandleAddGroupMember(r, who) == \E g \in AppGroups, u \in Staff : Arrives(r, who, "add member", <<"member", g, u>>, "yes")
HandleRemoveGroupMember(r, who) == \E g \in AppGroups, u \in Staff : Arrives(r, who, "remove member", <<"member", g, u>>, Absent)
HandleCreateProfile(r, who) == \E p \in Profiles, v \in Values : Arrives(r, who, "create profile", <<"profile", p, None>>, v)
HandleUpdateProfile(r, who) == \E p \in Profiles, v \in Values : Arrives(r, who, "update profile", <<"profile", p, None>>, v)
HandleDeleteProfile(r, who) == \E p \in Profiles : Arrives(r, who, "delete profile", <<"profile", p, None>>, Absent)
HandleRegisterNode(r, who) == \E n \in Nodes, v \in Values : Arrives(r, who, "register node", <<"node", n, None>>, v)
HandleUpdateNode(r, who) == \E n \in Nodes, v \in Values \cup {Absent} : Arrives(r, who, "set interface", <<"interface", n, None>>, v)
HandleUpdateNodeComment(r, who) == \E n \in Nodes, v \in Values \cup {Absent} : Arrives(r, who, "set comment", <<"comment", n, None>>, v)

-----------------------------------------------------------------------------
(* Services: the rule, the reads, and what an undo would put back.         *)

Reading(r, ops) == form[r].pc = "service" /\ form[r].op \in ops

\* Refused, not found, nothing to do, or a read that failed: nothing changes.
Refused(r) ==
    /\ form[r].pc = "service"
    /\ form' = [form EXCEPT ![r] = NoForm]
    /\ UNCHANGED <<value, made, directoryVars, historyVars>>

\* The reads are done, and the row's value with them.
Permitted(r, rule) ==
    /\ rule
    /\ form' = [form EXCEPT ![r].pc = "write", ![r].from = value[form[r].key]]
    /\ crossed' = crossed \cup {Subject(form[q].key) : q \in
           {q \in Forms \ {r} : form[q].pc \notin {"idle", "service"} /\ Subject(form[q].key) = Subject(form[r].key)}}
    /\ UNCHANGED <<value, made, directoryVars, said, ever, lapses, kept>>

Exists(k) == value[k] # Absent

ElevateTier(r) ==
    LET f == form[r] IN
    Reading(r, {"elevate"}) /\ Permitted(r, Exists(f.key) /\ CanElevate(f, value[f.key], f.to))

CreateLocalAccount(r) == Reading(r, {"create account"}) /\ Permitted(r, CanCreateLocalAccount(form[r]))

ResetLocalAccountPassword(r) ==
    LET f == form[r] IN
    Reading(r, {"reset password"}) /\ Permitted(r, CanResetLocalAccountPassword(f) /\ f.key[2] \in LocalStaff /\ Exists(<<"tier", f.key[2], None>>))

\* UpdateDisplayName and ChangeOwnPassword, whose old password was right.
UpdateOwnAccount(r) == Reading(r, {"own"}) /\ Permitted(r, form[r].key[2] \in LocalStaff)

UpdateOwnTheme(r) == Reading(r, {"own theme"}) /\ Permitted(r, ~IsSuper(form[r]))

SettingRead(r, setting) == Reading(r, {"setting"}) /\ form[r].key[1] = setting /\ Permitted(r, CanViewSettings(form[r]))
UpdateDefaultTheme(r) == SettingRead(r, "default theme")
UpdateContainerLogRetention(r) == SettingRead(r, "log retention")
UpdateAlertRetention(r) == SettingRead(r, "alert retention")

CreateGroup(r) == Reading(r, {"create group"}) /\ Permitted(r, CanManageGroups(form[r]) /\ form[r].key \notin made)

RenameGroup(r) ==
    LET f == form[r] IN
    Reading(r, {"rename group"}) /\ Permitted(r, CanManageGroups(f) /\ Exists(f.key) /\ value[f.key] # f.to)

DeleteGroup(r) == Reading(r, {"delete group"}) /\ Permitted(r, CanManageGroups(form[r]) /\ Exists(form[r].key))

\* The directory knows the group.
MapADGroup(r) == Reading(r, {"map"}) /\ Permitted(r, CanManageGroups(form[r]) /\ Exists(Subject(form[r].key)))

UnmapADGroup(r) == Reading(r, {"unmap"}) /\ Permitted(r, CanManageGroups(form[r]) /\ Exists(form[r].key))

AddLocalMember(r) ==
    LET f == form[r] IN
    Reading(r, {"add member"}) /\ Permitted(r, CanManageGroupLocalMembers(f) /\ Exists(Subject(f.key))
                                               /\ f.key[3] \in LocalStaff /\ Exists(<<"tier", f.key[3], None>>))

RemoveLocalMember(r) ==
    Reading(r, {"remove member"}) /\ Permitted(r, CanManageGroupLocalMembers(form[r]) /\ Exists(Subject(form[r].key)))

\* resolve has found the engine, the node and the model in order.
CreateProfile(r) == Reading(r, {"create profile"}) /\ Permitted(r, CanManageProfiles(form[r]) /\ form[r].key \notin made)
UpdateProfile(r) == Reading(r, {"update profile"}) /\ Permitted(r, CanManageProfiles(form[r]))
DeleteProfile(r) == Reading(r, {"delete profile"}) /\ Permitted(r, CanManageProfiles(form[r]))

RegisterNode(r) == Reading(r, {"register node"}) /\ Permitted(r, CanManageNodes(form[r]) /\ form[r].key \notin made)

\* The node reports the interface.
SetDefaultTransferInterface(r) ==
    Reading(r, {"set interface"}) /\ Permitted(r, CanManageNodes(form[r]) /\ Exists(<<"node", form[r].key[2], None>>))

SetComment(r) ==
    Reading(r, {"set comment"}) /\ Permitted(r, CanEditNodeComment(form[r]) /\ Exists(<<"node", form[r].key[2], None>>))

-----------------------------------------------------------------------------
(* Repositories: what a statement finds when it runs.                      *)

NameFree(k, v) == \A q \in RowKeys \ {k} : q[1] = k[1] => value[q] # v

\* A unique name, a row still there, a foreign key.
Writable(k, v) ==
    CASE k[1] \in {"group", "profile", "node"} /\ v # Absent -> NameFree(k, v) /\ (k \in made => Exists(k))
      [] k[1] = "mapping" /\ v # Absent -> Exists(Subject(k)) /\ ~Exists(k)
      [] k[1] = "member" /\ v # Absent -> Exists(Subject(k)) /\ ~Exists(k)
      [] k[1] \in {"group", "profile", "mapping", "member"} /\ v = Absent -> Exists(k)
      [] OTHER -> TRUE

\* Deleting a group cascades to its mappings and members.
Written(k, v) ==
    [q \in RowKeys |-> IF q = k \/ (k[1] = "group" /\ v = Absent /\ Subject(q) = k) THEN v ELSE value[q]]

\* A statement that finds nothing to change, or fails, ends the request.
Write(r) ==
    LET f == form[r]
        fresh == f.op \in {"create account", "create group", "create profile", "register node"}
        goes == Writable(f.key, f.to) /\ (fresh => f.key \notin made) /\ (f.op = "update profile" => Exists(f.key))
    IN
    /\ f.pc = "write"
    /\ \/ /\ goes
          /\ value' = Written(f.key, f.to)
          /\ made' = made \cup {f.key}
          /\ form' = [form EXCEPT ![r].pc = CASE f.op = "map" -> "backfill"
                                              [] f.op \in {"unmap", "delete group"} -> "prune"
                                              [] OTHER -> "audit"]
       \/ /\ form' = [form EXCEPT ![r] = NoForm]
          /\ UNCHANGED <<value, made>>
    /\ UNCHANGED <<directoryVars, historyVars>>

-----------------------------------------------------------------------------
(* The membership cache.                                                   *)

\* The backfill asks the directory; if that, or what follows, fails the mapping
\* goes on without.
GroupMemberDNs(r) ==
    LET f == form[r] IN
    /\ f.pc = "backfill"
    /\ \/ form' = [form EXCEPT ![r].pc = "match", ![r].found = {u \in Staff \ LocalStaff : <<u, f.key[3]>> \in inAd}]
       \/ form' = [form EXCEPT ![r].pc = "audit"]
    /\ UNCHANGED <<value, made, directoryVars, historyVars>>

\* Of them it knows those with a row whose cached DN is the one they have.
FindIDsByLDAPDNs(r) ==
    LET f == form[r] IN
    /\ f.pc = "match"
    /\ \/ \E known \in SUBSET {u \in f.found : Exists(<<"tier", u, None>>)} :
             form' = [form EXCEPT ![r].pc = "cache", ![r].found = known]
       \/ form' = [form EXCEPT ![r].pc = "audit"]
    /\ UNCHANGED <<value, made, directoryVars, historyVars>>

ReplaceMembersOfDN(r) ==
    LET f == form[r] IN
    /\ f.pc = "cache"
    /\ \/ cached' = {c \in cached : c[2] # f.key[3]} \cup {<<u, f.key[3]>> : u \in f.found}
       \/ UNCHANGED cached
    /\ form' = [form EXCEPT ![r].pc = "audit"]
    /\ UNCHANGED <<value, made, inAd, refresh, wasIn, historyVars>>

MappedDNs == {d \in AdGroups : \E g \in AppGroups : Exists(<<"mapping", g, d>>)}

\* After an unmapping or a deletion, and after a mapping was undone.
PruneUnmappedMemberships(r) ==
    LET f == form[r] IN
    /\ f.pc \in {"prune", "prune undone"}
    /\ \/ cached' = {c \in cached : c[2] \in MappedDNs}
       \/ UNCHANGED cached
    /\ form' = [form EXCEPT ![r] = IF f.pc = "prune" THEN [f EXCEPT !.pc = "audit"] ELSE NoForm]
    /\ UNCHANGED <<value, made, inAd, refresh, wasIn, historyVars>>

\* A first AD login creates the person's row, at read_only and without a record.
FirstLogin(u) ==
    LET k == <<"tier", u, None>> IN
    /\ u \in Staff \ LocalStaff /\ k \notin made
    /\ value' = [value EXCEPT ![k] = "read_only"]
    /\ made' = made \cup {k}
    /\ said' = [said EXCEPT ![k] = "read_only"]
    /\ ever' = [ever EXCEPT ![k] = @ \cup {"read_only"}]
    /\ UNCHANGED <<form, directoryVars, lapses, crossed, kept>>

\* RefreshUser, at a sign-in or a recheck: the mapped groups ...
RefreshUser(u) ==
    /\ u \in Staff \ LocalStaff /\ Exists(<<"tier", u, None>>) /\ refresh[u].pc = "idle"
    /\ refresh' = [refresh EXCEPT ![u] = [pc |-> "ask", dns |-> MappedDNs]]
    /\ UNCHANGED <<value, made, form, cached, inAd, wasIn, historyVars>>

\* ... which of them the person is in, if the directory answers ...
MemberOf(u) ==
    /\ refresh[u].pc = "ask"
    /\ \/ refresh' = [refresh EXCEPT ![u] = [pc |-> "replace", dns |-> {d \in @.dns : <<u, d>> \in inAd}]]
       \/ refresh' = [refresh EXCEPT ![u] = [pc |-> "idle", dns |-> {}]]
    /\ UNCHANGED <<value, made, form, cached, inAd, wasIn, historyVars>>

\* ... and their rows.
ReplaceUserMemberships(u) ==
    /\ refresh[u].pc = "replace"
    /\ \/ cached' = {c \in cached : c[1] # u} \cup {<<u, d>> : d \in refresh[u].dns}
       \/ UNCHANGED cached
    /\ refresh' = [refresh EXCEPT ![u] = [pc |-> "idle", dns |-> {}]]
    /\ UNCHANGED <<value, made, form, inAd, wasIn, historyVars>>

AdChanges(u, d) ==
    /\ u \in Staff \ LocalStaff
    /\ inAd' = IF <<u, d>> \in inAd THEN inAd \ {<<u, d>>} ELSE inAd \cup {<<u, d>>}
    /\ wasIn' = wasIn \cup inAd'
    /\ UNCHANGED <<value, made, form, cached, refresh, historyVars>>

\* Members: by hand, or by a cached membership of a mapped group.
Members(g) ==
    {u \in Staff : \/ Exists(<<"member", g, u>>)
                   \/ \E d \in AdGroups : Exists(<<"mapping", g, d>>) /\ <<u, d>> \in cached}

-----------------------------------------------------------------------------
(* The audit record.                                                       *)

\* The keys a record is about.
Recorded(f) == {q \in RowKeys : q = f.key \/ (f.op = "delete group" /\ Subject(q) = f.key)}

Record(r) ==
    LET f == form[r] IN
    /\ f.pc = "audit"
    /\ said' = [k \in RowKeys |-> IF k \in Recorded(f) THEN f.to ELSE said[k]]
    /\ ever' = [k \in RowKeys |-> IF k \in Recorded(f) THEN ever[k] \cup {f.to} ELSE ever[k]]
    /\ form' = [form EXCEPT ![r] = NoForm]
    /\ UNCHANGED <<value, made, directoryVars, lapses, crossed, kept>>

Undoes(op) == op \in {"elevate", "own theme", "setting", "create group", "rename group", "map", "unmap",
                      "add member", "remove member"}

\* The record cannot be written: put back what was read, or leave it.
RecordFails(r) ==
    LET f == form[r] IN
    /\ f.pc = "audit"
    /\ lapses' = lapses + 1
    /\ form' = [form EXCEPT ![r] = IF Undoes(f.op) THEN [f EXCEPT !.pc = "undo"] ELSE NoForm]
    /\ kept' = IF Undoes(f.op) THEN kept ELSE kept \cup {Subject(f.key)}
    /\ UNCHANGED <<value, made, directoryVars, said, ever, crossed>>

\* Mutant: what is put back is read after the write.
UndoReadsBack(r) ==
    LET f == form[r] IN
    /\ f.pc = "undo"
    /\ form' = [form EXCEPT ![r] = IF f.op = "map" THEN [f EXCEPT !.pc = "prune undone"] ELSE NoForm]
    /\ UNCHANGED <<value, made, directoryVars, historyVars>>

UndoValue(f) ==
    CASE f.op \in {"create group", "map", "add member"} -> Absent
      [] f.op \in {"unmap", "remove member"} -> "yes"
      [] OTHER -> f.from

\* The value that was read is written back; a statement that finds nothing to
\* change has nothing to undo.
Undo(r) ==
    LET f == form[r] IN
    /\ f.pc = "undo"
    /\ value' = IF Writable(f.key, UndoValue(f)) THEN Written(f.key, UndoValue(f)) ELSE value
    /\ kept' = IF Writable(f.key, UndoValue(f)) \/ UndoValue(f) = Absent \/ (f.key[1] = "member" /\ Exists(f.key))
               THEN kept ELSE kept \cup {Subject(f.key)}
    /\ form' = [form EXCEPT ![r] = IF f.op = "map" THEN [f EXCEPT !.pc = "prune undone"] ELSE NoForm]
    /\ UNCHANGED <<made, directoryVars, said, ever, lapses, crossed>>

UndoFails(r) ==
    LET f == form[r] IN
    /\ f.pc = "undo"
    /\ kept' = kept \cup {Subject(f.key)}
    /\ form' = [form EXCEPT ![r] = NoForm]
    /\ UNCHANGED <<value, made, directoryVars, said, ever, lapses, crossed>>

\* The server dies with its requests.
ServerDies ==
    /\ \E r \in Forms : form[r].pc # "idle"
    /\ kept' = kept \cup {Subject(form[r].key) : r \in {r \in Forms : form[r].pc \in {"backfill", "match", "cache", "prune", "audit", "undo"}}}
    /\ form' = [r \in Forms |-> NoForm]
    /\ refresh' = [u \in Staff |-> [pc |-> "idle", dns |-> {}]]
    /\ UNCHANGED <<value, made, cached, inAd, wasIn, said, ever, lapses, crossed>>

-----------------------------------------------------------------------------
UserForms(r, who) ==
    \/ HandleElevateUser(r, who) \/ HandleCreateLocalAccount(r, who) \/ HandleResetLocalAccountPassword(r, who)
    \/ HandleUpdateDisplayName(r, who) \/ HandleChangeOwnPassword(r, who)

SettingForms(r, who) ==
    \/ HandleUpdateTheme(r, who) \/ HandleUpdateDefaultTheme(r, who)
    \/ HandleUpdateContainerLogRetention(r, who) \/ HandleUpdateAlertRetention(r, who)

RegistryForms(r, who) ==
    \/ HandleCreateProfile(r, who) \/ HandleUpdateProfile(r, who) \/ HandleDeleteProfile(r, who)
    \/ HandleRegisterNode(r, who) \/ HandleUpdateNode(r, who) \/ HandleUpdateNodeComment(r, who)

GroupForms(r, who) ==
    \/ HandleCreateGroup(r, who) \/ HandleRenameGroup(r, who) \/ HandleDeleteGroup(r, who)
    \/ HandleMapADGroup(r, who) \/ HandleUnmapADGroup(r, who)
    \/ HandleAddGroupMember(r, who) \/ HandleRemoveGroupMember(r, who)

FormSteps ==
    \E r \in Forms :
        \/ Refused(r) \/ ElevateTier(r) \/ CreateLocalAccount(r) \/ ResetLocalAccountPassword(r) \/ UpdateOwnAccount(r)
        \/ UpdateOwnTheme(r) \/ UpdateDefaultTheme(r) \/ UpdateContainerLogRetention(r) \/ UpdateAlertRetention(r)
        \/ CreateGroup(r) \/ RenameGroup(r) \/ DeleteGroup(r)
        \/ MapADGroup(r) \/ UnmapADGroup(r) \/ AddLocalMember(r) \/ RemoveLocalMember(r)
        \/ CreateProfile(r) \/ UpdateProfile(r) \/ DeleteProfile(r)
        \/ RegisterNode(r) \/ SetDefaultTransferInterface(r) \/ SetComment(r)
        \/ Write(r) \/ GroupMemberDNs(r) \/ FindIDsByLDAPDNs(r) \/ ReplaceMembersOfDN(r) \/ PruneUnmappedMemberships(r)
        \/ Record(r) \/ RecordFails(r) \/ Undo(r) \/ UndoFails(r)

RefreshSteps == \E u \in Staff : MemberOf(u) \/ ReplaceUserMemberships(u)

Contents == Values \cup Tiers \cup {"yes", Absent}

\* The tables hold what their columns and foreign keys allow.
RowsFit ==
    /\ value \in [RowKeys -> Contents]
    /\ \A k \in RowKeys : k[1] \in {"mapping", "member"} =>
          value[k] \in {"yes", Absent} /\ (Exists(k) => Exists(Subject(k)))

AdministrationNext ==
    \/ \E r \in Forms, who \in Staff \cup {BreakGlass} :
          UserForms(r, who) \/ SettingForms(r, who) \/ RegistryForms(r, who) \/ GroupForms(r, who)
    \/ FormSteps \/ RefreshSteps \/ ServerDies
    \/ \E u \in Staff : FirstLogin(u) \/ RefreshUser(u) \/ \E d \in AdGroups : AdChanges(u, d)

\* From whatever was set up before.
AdministrationSpec ==
    /\ RowsFit /\ inAd \subseteq (Staff \ LocalStaff) \X AdGroups /\ AdministrationInit
    /\ [][AdministrationNext]_adminVars

-----------------------------------------------------------------------------
(* PROPERTIES                                                              *)

Ops == {"none", "elevate", "create account", "reset password", "own", "own theme", "setting", "create group",
        "rename group", "delete group", "map", "unmap", "add member", "remove member", "create profile",
        "update profile", "delete profile", "register node", "set interface", "set comment"}
FormPCs == {"idle", "service", "write", "backfill", "match", "cache", "prune", "audit", "undo", "prune undone"}
FormStates == [pc : FormPCs, op : Ops, who : Staff \cup {BreakGlass}, tier : Contents, key : RowKeys,
               from : Contents, to : Contents, found : SUBSET Staff]
Refreshes == [pc : {"idle", "ask", "replace"}, dns : SUBSET AdGroups]

\* The state is of the types of the tables, the requests and the cache.
AdministrationTypes ==
    /\ RowsFit /\ made \subseteq RowKeys /\ form \in [Forms -> FormStates]
    /\ cached \subseteq Staff \X AdGroups /\ inAd \subseteq Staff \X AdGroups /\ wasIn \subseteq Staff \X AdGroups
    /\ refresh \in [Staff -> Refreshes]
    /\ said \in [RowKeys -> Contents] /\ ever \in [RowKeys -> SUBSET Contents] /\ lapses \in Nat
    /\ crossed \subseteq RowKeys /\ kept \subseteq RowKeys

\* Once no request is under way, what is in place is what the audit log says:
\* exactly, however many records failed, for a subject no two requests changed
\* at once; and, whatever ran at once, a value the log records unless two
\* records failed.  Nobody belongs to a group without a recorded membership, or
\* a recorded mapping of an AD group they have been in.  Excepted are subjects
\* whose undo failed, was cut short, or does not exist; the tier of someone the
\* directory lets in begins at read_only without a record (ElevateTier,
\* UpdateOwnTheme, UpdateDefaultTheme, UpdateRetention, the groups service,
\* Login).
AccessWasGranted ==
    (\A r \in Forms : form[r].pc = "idle") =>
        /\ \A k \in RowKeys : Subject(k) \notin kept =>
              /\ Subject(k) \notin crossed => value[k] = said[k]
              /\ lapses <= 1 => value[k] \in ever[k]
        /\ \A g \in AppGroups : <<"group", g, None>> \notin kept /\ lapses <= 1 =>
              \A u \in Members(g) :
                  \/ "yes" \in ever[<<"member", g, u>>]
                  \/ \E d \in AdGroups : "yes" \in ever[<<"mapping", g, d>>] /\ <<u, d>> \in wasIn
=============================================================================
