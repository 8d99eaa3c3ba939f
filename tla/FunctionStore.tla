--------------------------- MODULE FunctionStore ---------------------------
(***************************************************************************)
(* The eventing function store (src/http_handlers.go).                     *)
(*                                                                         *)
(* A function is kept under three metakv paths: its definition in the      *)
(* primary store, its settings, and a draft of both in the temporary       *)
(* store.  The handlers of the REST API read and write them one after the  *)
(* other, without a lock, while other handlers do the same, writes fail,   *)
(* and the supervisor deploys and undeploys functions as their settings    *)
(* say.                                                                    *)
(*                                                                         *)
(* A definition (code, buckets) is abstracted to the request that brought  *)
(* it, settings to their two statuses and to the functions they stem from  *)
(* (every function has a setting of its own making, which no other has).   *)
(* External: metakv (each access is atomic; a failed write may or may not  *)
(* have taken effect) and the supervisor.                                  *)
(***************************************************************************)
EXTENDS Naturals, FiniteSets

CONSTANTS
  Name,         \* names of functions
  Req,          \* identities of handler calls
  Offered,      \* bound: the operations clients ask for
  Given,        \* bound: the settings they supply
  MaxFailures,  \* bound: failed accesses to metakv
  None          \* nothing under a path, no name

(* POST and DELETE on /functions (one or several), POST on .../settings,   *)
(* the handlers the user interface calls for a part of these, and cleanup. *)
Saves   == {"save", "setApplication"}
Deletes == {"delete", "deleteApplication"}
Ops     == Saves \cup Deletes \cup {"saveDraft", "deleteDraft", "settings", "cleanup"}

(* deployment_status and processing_status: both, the first, neither, only *)
(* the second; "none" if one is missing. A nil map stems from nobody.      *)
Statuses == {"deployed", "paused", "undeployed", "odd", "none"}
Settings == [status: Statuses, of: SUBSET Name]
Nil      == [status |-> "none", of |-> {}]

ASSUME OfferedAssumption  == Offered \subseteq Ops
ASSUME GivenAssumption    == Given \subseteq Statuses \cup {"nil"}
ASSUME FailuresAssumption == MaxFailures \in Nat
ASSUME NoneAssumption     == None \notin Name \cup Req /\ None \notin Settings

VARIABLES
  apps,      \* metakvAppsPath: the definition of each function
  settings,  \* metakvAppSettingsPath
  temp,      \* metakvTempAppsPath: the drafts
  sup,       \* the supervisor's view of each function            (external)
  h,         \* the handlers' local variables
  failures,  \* failed accesses so far                               (bound)
  unset      \* functions whose settings were, or may have been,
             \* removed from under a definition                    (history)

vars == <<apps, settings, temp, sup, h, failures, unset>>

Drafts   == [src: Req \cup {None}, settings: Settings]
NoDraft  == [src |-> None, settings |-> Nil]

Codes == {"ok", "deployed", "invalid", "error", "notDeployed", "notUndeployed",
          "notFound", "notInit", "noStatus", "panic"}

Locations == {"idle", "next", "done", "checkDeployed", "compile", "putSettings",
              "putApp", "checkBuckets", "putDraft", "findApp", "checkState",
              "listApps", "dropSettings", "dropApp", "findDraft",
              "checkDraftState", "dropDraft", "listDrafts", "readDraft",
              "validate", "cleanApps", "cleanDrafts", "cleanSettings"}

(* A handler: what it was asked, the names left (of a list), the one it is *)
(* at, the statuses supplied, the app it builds, the drafts it has still   *)
(* to read; `alone' is a history: nothing else touched the name meanwhile. *)
Handlers == [op: Ops \cup {"none"}, at: Locations, todo: SUBSET Name,
             name: Name \cup {None}, given: Statuses \cup {"nil"}, app: Drafts,
             list: SUBSET Name, code: Codes \cup {"none"}, alone: BOOLEAN]

Idle == [op |-> "none", at |-> "idle", todo |-> {}, name |-> None, given |-> "nil",
         app |-> NoDraft, list |-> {}, code |-> "none", alone |-> TRUE]

Init ==
  /\ apps = [n \in Name |-> None]
  /\ settings = [n \in Name |-> None]
  /\ temp = [n \in Name |-> None]
  /\ sup = [n \in Name |-> "undeployed"]
  /\ h = [r \in Req |-> Idle]
  /\ failures = 0
  /\ unset = {}

store == <<apps, settings, temp>>

(* The supervisor, as DeployedAppList, GetDeployedApps, GetAppState say.   *)
Listed(n)       == sup[n] # "undeployed"
Bootstrapped(n) == sup[n] = "deployed"

-----------------------------------------------------------------------------
Active(u)     == u.at \notin {"idle", "next", "done"}
Touches(u, n) == Active(u) /\ (u.name = n \/ u.op = "cleanup" \/ n = None)

Supplied(status, n) == IF status = "nil" THEN Nil
                                         ELSE [status |-> status, of |-> {n}]

(* A call is made. DELETE on /functions goes through the drafts it could   *)
(* read.                                                                   *)
Submit(r, op) ==
  /\ h[r].at = "idle" /\ op \in Offered
  /\ \E todo \in {{n} : n \in Name}
                   \cup (IF op = "save" THEN SUBSET Name ELSE {})
                   \cup (IF op = "delete" THEN SUBSET {n \in Name : temp[n] # None} ELSE {}),
        given \in IF op \in Saves \cup {"saveDraft", "settings"} THEN Given ELSE {"nil"} :
       /\ todo # {}
       /\ h' = [h EXCEPT ![r].op = op, ![r].at = "next", ![r].given = given,
                         ![r].todo = todo]
  /\ UNCHANGED <<store, sup, failures, unset>>

Entry(op) ==
  CASE op \in Saves       -> "checkDeployed"
    [] op \in Deletes     -> "findApp"
    [] op = "saveDraft"   -> "checkBuckets"
    [] op = "deleteDraft" -> "findDraft"
    [] op = "settings"    -> "listDrafts"
    [] op = "cleanup"     -> "cleanApps"

(* Each of its names is taken in turn. *)
Take(r) ==
  LET op == h[r].op IN
  /\ h[r].at = "next"
  /\ \E n \in h[r].todo :
       LET name   == IF op = "cleanup" THEN None ELSE n
           others == {q \in Req \ {r} : Touches(h[q], name)}
           app    == IF op \in Saves \cup {"saveDraft"}
                       THEN [src |-> r, settings |-> Supplied(h[r].given, n)]
                       ELSE NoDraft
       IN h' = [q \in Req |->
                 IF q = r THEN [h[r] EXCEPT !.at = Entry(op), !.todo = @ \ {n},
                                            !.name = name, !.app = app,
                                            !.alone = others = {}]
                 ELSE IF q \in others THEN [h[q] EXCEPT !.alone = FALSE]
                 ELSE h[q]]
  /\ UNCHANGED <<store, sup, failures, unset>>

Goes(r, at) == h' = [h EXCEPT ![r].at = at]

(* The handler is through with a name; after the last it returns. *)
Ends(r, code) ==
  h' = [h EXCEPT ![r] =
         IF h[r].todo = {} THEN [Idle EXCEPT !.at = "done", !.code = code]
         ELSE [Idle EXCEPT !.at = "next", !.code = code, !.op = h[r].op,
                           !.todo = h[r].todo, !.given = h[r].given]]

(* A test that refuses the request with a code, or lets it go on. *)
Test(r, at, refused, code, next) ==
  /\ h[r].at = at
  /\ IF refused THEN Ends(r, code) ELSE Goes(r, next)
  /\ UNCHANGED <<store, sup, failures, unset>>

(* A validation that depends on the cluster or the compiler. *)
Validation(r, at, next) ==
  /\ h[r].at = at
  /\ Ends(r, "invalid") \/ Goes(r, next)
  /\ UNCHANGED <<store, sup, failures, unset>>

(* Mutant: one failure too many. *)
FailuresLeftInclusive == failures <= MaxFailures

FailuresLeft == failures < MaxFailures

(* A failed access ends the request with an error. *)
Fails(r) ==
  /\ FailuresLeft /\ failures' = failures + 1
  /\ Ends(r, "error")

(* What follows a successful write: the next step, or the end. *)
Follows(r, next) == IF next = "end" THEN Ends(r, "ok") ELSE Goes(r, next)

(* Mutant: the error of a write is dropped. *)
AccessUnchecked(r, at, next, after, before, new) ==
  /\ h[r].at = at
  /\ Follows(r, next)
  /\ \/ after = new /\ UNCHANGED failures
     \/ after = before /\ FailuresLeft /\ failures' = failures + 1

(* MetakvSet and MetaKvDelete of a handler's name: before and after are    *)
(* the path's contents and its contents once changed.                      *)
Access(r, at, next, after, before, new) ==
  /\ h[r].at = at
  /\ \/ Follows(r, next) /\ after = new /\ UNCHANGED failures
     \/ Fails(r) /\ after \in {before, new}

-----------------------------------------------------------------------------
(* savePrimaryStore, saveTempStore. *)
CheckDeployed(r) == Test(r, "checkDeployed", Listed(h[r].name), "deployed", "compile")
Compile(r)       == Validation(r, "compile", "putSettings")
CheckBuckets(r)  == Validation(r, "checkBuckets", "putDraft")

(* The settings are stored before the definition (by setSettings before    *)
(* the draft). *)
PutSettings(r) ==
  LET n == h[r].name IN
  /\ Access(r, "putSettings",
            IF h[r].op = "settings" THEN "checkBuckets" ELSE "putApp",
            settings', settings, [settings EXCEPT ![n] = h[r].app.settings])
  /\ UNCHANGED <<apps, temp, sup, unset>>

(* "Save to temp store only if saving to primary store succeeds" *)
PutApp(r) ==
  LET n == h[r].name IN
  /\ Access(r, "putApp", IF h[r].op = "save" THEN "checkBuckets" ELSE "end",
            apps', apps, [apps EXCEPT ![n] = h[r].app.src])
  /\ unset' = IF h[r].alone THEN unset ELSE unset \cup {n}
  /\ UNCHANGED <<settings, temp, sup>>

PutDraft(r) ==
  LET n == h[r].name IN
  /\ Access(r, "putDraft", "end", temp', temp, [temp EXCEPT ![n] = h[r].app])
  /\ UNCHANGED <<apps, settings, sup, unset>>

-----------------------------------------------------------------------------
(* deletePrimaryStore, deleteTempStore. *)

(* Mutants: the draft is deleted whatever happened to the definition; only *)
(* if there was one. *)
ContinuesAlways(op, code) == op = "delete"
ContinuesOnlyWhenOk(op, code) == op = "delete" /\ code = "ok"

(* "Delete the application from temp store only if app does not exist in   *)
(* primary store or if the deletion succeeds on primary store" *)
Continues(op, code) == op = "delete" /\ code \in {"notDeployed", "ok"}

PrimaryEnds(r, code) ==
  IF Continues(h[r].op, code) THEN Goes(r, "findDraft") ELSE Ends(r, code)

FindApp(r) ==
  /\ h[r].at = "findApp"
  /\ IF apps[h[r].name] = None THEN PrimaryEnds(r, "notDeployed")
                               ELSE Goes(r, "checkState")
  /\ UNCHANGED <<store, sup, failures, unset>>

CheckState(r) ==
  /\ h[r].at = "checkState"
  /\ IF Listed(h[r].name) THEN PrimaryEnds(r, "notUndeployed") ELSE Goes(r, "listApps")
  /\ UNCHANGED <<store, sup, failures, unset>>

(* The paths are listed again; a definition that is gone counts as deleted. *)
ListApps(r) ==
  /\ h[r].at = "listApps"
  /\ IF apps[h[r].name] = None THEN PrimaryEnds(r, "ok") ELSE Goes(r, "dropSettings")
  /\ UNCHANGED <<store, sup, failures, unset>>

DropSettings(r) ==
  LET n == h[r].name IN
  /\ Access(r, "dropSettings", "dropApp",
            settings', settings, [settings EXCEPT ![n] = None])
  /\ unset' = unset \cup {n}
  /\ UNCHANGED <<apps, temp, sup>>

DropApp(r) ==
  LET n == h[r].name IN
  /\ Access(r, "dropApp", IF Continues(h[r].op, "ok") THEN "findDraft" ELSE "end",
            apps', apps, [apps EXCEPT ![n] = None])
  /\ unset' = IF apps'[n] = None /\ h[r].alone THEN unset \ {n} ELSE unset
  /\ UNCHANGED <<settings, temp, sup>>

FindDraft(r) ==
  Test(r, "findDraft", temp[h[r].name] = None, "notDeployed", "checkDraftState")
CheckDraftState(r) ==
  Test(r, "checkDraftState", Listed(h[r].name), "notUndeployed", "dropDraft")

DropDraft(r) ==
  LET n == h[r].name IN
  /\ Access(r, "dropDraft", "end", temp', temp, [temp EXCEPT ![n] = None])
  /\ UNCHANGED <<apps, settings, sup, unset>>

-----------------------------------------------------------------------------
(* setSettings. *)
ListDrafts(r) ==
  /\ h[r].at = "listDrafts"
  /\ h' = [h EXCEPT ![r].at = "readDraft",
                    ![r].list = {n \in Name : temp[n] # None}]
  /\ UNCHANGED <<store, sup, failures, unset>>

(* json.Unmarshal into a variable that holds another draft: a map is       *)
(* merged into the one already there, null replaces it.                    *)
Unmarshal(app, draft) ==
  [src |-> draft.src,
   settings |->
     IF draft.settings.of = {} THEN Nil
     ELSE [status |-> IF draft.settings.status = "none" THEN app.settings.status
                                                        ELSE draft.settings.status,
           of     |-> app.settings.of \cup draft.settings.of]]

(* getTempStore reads drafts, in any order, until it meets its own; one    *)
(* that is gone or cannot be read is passed over.                          *)
ReadDraft(r) ==
  /\ h[r].at = "readDraft" /\ h[r].list # {}
  /\ \E m \in h[r].list :
       \/ /\ h' = [h EXCEPT ![r].list = @ \ {m}]
          /\ IF temp[m] = None THEN UNCHANGED failures
                               ELSE FailuresLeft /\ failures' = failures + 1
       \/ /\ temp[m] # None
          /\ h' = [h EXCEPT ![r].at = IF m = h[r].name THEN "validate" ELSE @,
                            ![r].list = IF m = h[r].name THEN {} ELSE @ \ {m},
                            ![r].app = Unmarshal(@, temp[m])]
          /\ UNCHANGED failures
  /\ UNCHANGED <<store, sup, unset>>

NotFound(r) ==
  /\ h[r].at = "readDraft" /\ h[r].list = {}
  /\ Ends(r, "notFound")
  /\ UNCHANGED <<store, sup, failures, unset>>

(* Mutant: the draft's statuses win over those supplied. *)
OverrideKeeping(own, given, n) ==
  IF given = "nil" THEN own
  ELSE [status |-> IF own.status = "none" THEN given ELSE own.status, of |-> own.of \cup {n}]

(* The settings supplied replace those of the draft, one by one; of an     *)
(* empty payload ("nil") there is nothing to assign.                       *)
Override(own, given, n) ==
  IF given = "nil" THEN own
  ELSE [status |-> IF given = "none" THEN own.status ELSE given, of |-> own.of \cup {n}]

(* An assignment to a nil map panics. Pausing or undeploying needs a       *)
(* bootstrapped function; the other combinations are not looked at.        *)
Validate(r) ==
  LET n   == h[r].name
      own == h[r].app.settings
      new == Override(own, h[r].given, n)
  IN /\ h[r].at = "validate"
     /\ IF own.of = {} /\ h[r].given # "nil" THEN Ends(r, "panic")
        ELSE IF new.status = "none" THEN Ends(r, "noStatus")
        ELSE IF new.status \in {"paused", "undeployed"} /\ ~Bootstrapped(n)
          THEN Ends(r, "notInit")
        ELSE h' = [h EXCEPT ![r].at = "putSettings", ![r].app.settings = new]
     /\ UNCHANGED <<store, sup, failures, unset>>

-----------------------------------------------------------------------------
(* cleanupEventing: each path is cleared, however often that takes. *)
Nothing == [n \in Name |-> None]

CleanApps(r) ==
  /\ h[r].at = "cleanApps" /\ apps' = Nothing /\ Goes(r, "cleanDrafts")
  /\ UNCHANGED <<settings, temp, sup, failures, unset>>
CleanDrafts(r) ==
  /\ h[r].at = "cleanDrafts" /\ temp' = Nothing /\ Goes(r, "cleanSettings")
  /\ UNCHANGED <<apps, settings, sup, failures, unset>>
CleanSettings(r) ==
  /\ h[r].at = "cleanSettings" /\ settings' = Nothing /\ Ends(r, "ok")
  /\ unset' = IF h[r].alone THEN {} ELSE Name
  /\ UNCHANGED <<apps, temp, sup, failures>>

-----------------------------------------------------------------------------
(* The supervisor (external) follows settings and definitions. *)
SupervisorStarts(n) ==
  /\ sup[n] = "undeployed" /\ apps[n] # None
  /\ settings[n] # None /\ settings[n].status = "deployed"
  /\ sup' = [sup EXCEPT ![n] = "starting"]
  /\ UNCHANGED <<store, h, failures, unset>>

SupervisorBoots(n) ==
  /\ sup[n] = "starting"
  /\ sup' = [sup EXCEPT ![n] = "deployed"]
  /\ UNCHANGED <<store, h, failures, unset>>

SupervisorStops(n) ==
  /\ sup[n] # "undeployed"
  /\ apps[n] = None \/ (settings[n] # None /\ settings[n].status = "undeployed")
  /\ sup' = [sup EXCEPT ![n] = "undeployed"]
  /\ UNCHANGED <<store, h, failures, unset>>

-----------------------------------------------------------------------------
HandlerStep(r) ==
  \/ Take(r) \/ CheckDeployed(r) \/ Compile(r) \/ PutSettings(r) \/ PutApp(r)
  \/ CheckBuckets(r) \/ PutDraft(r)
  \/ FindApp(r) \/ CheckState(r) \/ ListApps(r) \/ DropSettings(r) \/ DropApp(r)
  \/ FindDraft(r) \/ CheckDraftState(r) \/ DropDraft(r)
  \/ ListDrafts(r) \/ ReadDraft(r) \/ NotFound(r) \/ Validate(r)
  \/ CleanApps(r) \/ CleanDrafts(r) \/ CleanSettings(r)

Next ==
  \/ \E r \in Req : HandlerStep(r) \/ \E op \in Ops : Submit(r, op)
  \/ \E n \in Name : SupervisorStarts(n) \/ SupervisorBoots(n) \/ SupervisorStops(n)

Spec == Init /\ [][Next]_vars

-----------------------------------------------------------------------------
TypeOK ==
  /\ apps \in [Name -> Req \cup {None}]
  /\ settings \in [Name -> Settings \cup {None}]
  /\ temp \in [Name -> Drafts \cup {None}]
  /\ sup \in [Name -> {"undeployed", "starting", "deployed"}]
  /\ h \in [Req -> Handlers]
  /\ failures \in 0..MaxFailures
  /\ unset \in SUBSET Name

(* The step ends a handler's work on a name that nothing else touched      *)
(* meanwhile. *)
EndsAlone(r) == Active(h[r]) /\ ~Active(h'[r]) /\ h[r].alone

OkIsDone(r) ==
  LET u == h[r]
      n == u.name
      op == u.op
  IN EndsAlone(r) /\ h'[r].code = "ok" =>
       /\ op \in Saves => apps'[n] = r /\ settings'[n] = Supplied(u.given, n)
       /\ op \in {"save", "saveDraft"} =>
            temp'[n] = [src |-> r, settings |-> Supplied(u.given, n)]
       /\ op = "settings" =>
            /\ settings'[n] = temp'[n].settings
            /\ u.given \in {"none", "nil", settings'[n].status}
       /\ op \in Deletes => apps'[n] = None
       /\ op \in {"delete", "deleteDraft"} => temp'[n] = None
       /\ op = "cleanup" => <<apps, temp, settings>>' = <<Nothing, Nothing, Nothing>>

(* What ok promises, from whatever mess earlier requests left: a save is   *)
(* in every store it names, complete and in step; new settings are in both *)
(* stores with the statuses supplied; a delete and a cleanup have removed  *)
(* all they are to remove.                                                 *)
OkMeansDone == [][\A r \in Req : OkIsDone(r)]_vars

Heals(r) ==
  EndsAlone(r) /\ h[r].op = "delete" /\ h'[r].code \notin {"error", "notUndeployed"} =>
    apps'[h[r].name] = None /\ temp'[h[r].name] = None

(* A DELETE that met no failure and no running function leaves neither     *)
(* definition nor draft, though an earlier one may have failed half way:   *)
(* repeating it is how a client gets rid of the rest.                      *)
DeleteHeals == [][\A r \in Req : Heals(r)]_vars

(* A definition in the primary store has settings, except for one whose    *)
(* delete is under way or failed, or that was written while something else *)
(* touched the function.                                                   *)
DefinitionHasSettings ==
  \A n \in Name : apps[n] # None /\ settings[n] = None => n \in unset

(* "Get the app from temp store and update its settings with those         *)
(* provided" (setSettings): a function's settings are its own.             *)
SettingsAreOwn ==
  \A n \in Name : settings[n] # None => settings[n].of \subseteq {n}
=============================================================================
