------------------------ MODULE FunctionStoreProofs ------------------------
(* Theorems about FunctionStore, for any number of functions, of calls and *)
(* of failures.                                                            *)
EXTENDS FunctionStore, TLAPS

-----------------------------------------------------------------------------
(* Where a handler can be, by what it was asked.                           *)
Place(op, at) ==
  /\ at \in {"checkDeployed", "compile", "putApp"} => op \in Saves
  /\ at = "putSettings" => op \in Saves \cup {"settings"}
  /\ at \in {"checkBuckets", "putDraft"} => op \in {"save", "saveDraft", "settings"}
  /\ at \in {"findApp", "checkState", "listApps", "dropSettings", "dropApp"} => op \in Deletes
  /\ at \in {"findDraft", "checkDraftState", "dropDraft"} => op \in {"delete", "deleteDraft"}
  /\ at \in {"listDrafts", "readDraft", "validate"} => op = "settings"
  /\ at \in {"cleanApps", "cleanDrafts", "cleanSettings"} => op = "cleanup"

Form(u) ==
  /\ u \in Handlers
  /\ u.at \notin {"idle", "done"} => u.op \in Ops
  /\ Active(u) => Place(u.op, u.at) /\ (u.op = "cleanup" <=> u.name = None)

Writing == {"putSettings", "checkBuckets", "putDraft"}

(* What a handler is about to write.                                       *)
Own(r) ==
  /\ Active(h[r]) /\ h[r].op \in Saves \cup {"saveDraft"} =>
       h[r].app = [src |-> r, settings |-> Supplied(h[r].given, h[r].name)]
  /\ h[r].op = "settings" /\ h[r].at \in Writing =>
       h[r].given \in {"none", "nil", h[r].app.settings.status}

(* What a handler that is alone with its function has written already.     *)
StoredAt(r, at) ==
  LET u == h[r] IN
  /\ \/ at = "putApp"
     \/ at \in {"checkBuckets", "putDraft"} /\ u.op \in {"save", "settings"}
     => settings[u.name] = u.app.settings
  /\ at \in {"checkBuckets", "putDraft"} /\ u.op = "save" => apps[u.name] = r
  /\ at \in {"findDraft", "checkDraftState", "dropDraft"} /\ u.op = "delete" =>
       apps[u.name] = None
  /\ at \in {"cleanDrafts", "cleanSettings"} => apps = Nothing
  /\ at = "cleanSettings" => temp = Nothing

Stored(r) == Active(h[r]) /\ h[r].alone => StoredAt(r, h[r].at)

(* Nobody else touches the function of a handler that is alone.            *)
Apart ==
  \A q, r \in Req :
    q # r /\ Active(h[q]) /\ Active(h[r]) /\ h[q].alone =>
      h[q].name # h[r].name /\ h[q].op # "cleanup" /\ h[r].op # "cleanup"

(* The inductive invariant.                                                *)
Inv ==
  /\ TypeOK
  /\ \A r \in Req : Form(h[r]) /\ Own(r) /\ Stored(r)
  /\ Apart
  /\ DefinitionHasSettings

-----------------------------------------------------------------------------
(* A step of a handler, other than Take, is described by three things.     *)

(* How the handler itself goes on.                                         *)
Moved(r) ==
  /\ h' \in [Req -> Handlers]
  /\ \A q \in Req \ {r} : h'[q] = h[q]
  /\ Active(h[r])
  /\ Active(h'[r]) => /\ h'[r].name = h[r].name /\ h'[r].op = h[r].op
                      /\ h'[r].alone = h[r].alone
  /\ Form(h'[r])
  /\ Own(r)'

(* What it does to the store: nothing outside its function, and its        *)
(* function keeps what DefinitionHasSettings says.                         *)
Touched(r) ==
  /\ apps' \in [Name -> Req \cup {None}]
  /\ settings' \in [Name -> Settings \cup {None}]
  /\ temp' \in [Name -> Drafts \cup {None}]
  /\ failures' \in 0..MaxFailures
  /\ unset' \in SUBSET Name
  /\ sup' = sup
  /\ \A n \in Name : n # h[r].name /\ h[r].op # "cleanup" =>
       /\ apps'[n] = apps[n] /\ settings'[n] = settings[n] /\ temp'[n] = temp[n]
       /\ n \in unset' <=> n \in unset
  /\ \A n \in Name : n = h[r].name \/ h[r].op = "cleanup" =>
       (apps'[n] # None /\ settings'[n] = None => n \in unset')

(* What it promises when it ends.                                          *)
Promise(r) == OkIsDone(r) /\ Heals(r)

Sound(r) == Moved(r) /\ Touched(r) /\ Stored(r)' /\ Promise(r)

LEMMA GoesMakes ==
  ASSUME h \in [Req -> Handlers], NEW r \in Req, NEW at \in Locations, Goes(r, at)
  PROVE  /\ h' \in [Req -> Handlers]
         /\ \A q \in Req \ {r} : h'[q] = h[q]
         /\ h'[r] \in Handlers /\ h'[r].at = at
         /\ h'[r].op = h[r].op /\ h'[r].name = h[r].name /\ h'[r].given = h[r].given
         /\ h'[r].app = h[r].app /\ h'[r].alone = h[r].alone
<1>1. h'[r] = [h[r] EXCEPT !.at = at] /\ h' = [q \in Req |-> h'[q]]
      /\ \A q \in Req \ {r} : h'[q] = h[q]
  BY DEF Goes
<1>2. h[r] \in Handlers
  OBVIOUS
<1>3. /\ h'[r] \in Handlers /\ h'[r].at = at
      /\ h'[r].op = h[r].op /\ h'[r].name = h[r].name /\ h'[r].given = h[r].given
      /\ h'[r].app = h[r].app /\ h'[r].alone = h[r].alone
  BY <1>1, <1>2 DEF Handlers
<1> QED BY <1>1, <1>3

LEMMA IdleTyped == Idle \in Handlers
BY DEF Idle, Handlers, Locations, NoDraft, Drafts, Nil, Settings, Statuses, Codes

LEMMA EndsMakes ==
  ASSUME h \in [Req -> Handlers], NEW r \in Req, NEW code \in Codes, Ends(r, code)
  PROVE  /\ h' \in [Req -> Handlers]
         /\ \A q \in Req \ {r} : h'[q] = h[q]
         /\ h'[r] \in Handlers /\ h'[r].code = code
         /\ \/ h'[r].at = "done" /\ h'[r].op = "none"
            \/ h'[r].at = "next" /\ h'[r].op = h[r].op /\ h'[r].given = h[r].given
<1>1. /\ \A q \in Req \ {r} : h'[q] = h[q]
      /\ h' = [q \in Req |-> h'[q]]
      /\ \/ h'[r] = [Idle EXCEPT !.at = "done", !.code = code]
         \/ h'[r] = [Idle EXCEPT !.at = "next", !.code = code, !.op = h[r].op,
                                 !.todo = h[r].todo, !.given = h[r].given]
  BY DEF Ends
<1>2. h[r] \in Handlers /\ Idle \in Handlers /\ Idle.op = "none"
  BY IdleTyped DEF Idle
<1>3. "done" \in Locations /\ "next" \in Locations
  BY DEF Locations
<1>4. /\ h'[r] \in Handlers /\ h'[r].code = code
      /\ \/ h'[r].at = "done" /\ h'[r].op = "none"
         \/ h'[r].at = "next" /\ h'[r].op = h[r].op /\ h'[r].given = h[r].given
  <2>1. CASE h'[r] = [Idle EXCEPT !.at = "done", !.code = code]
    BY <1>2, <1>3, <2>1 DEF Handlers
  <2>2. CASE h'[r] = [Idle EXCEPT !.at = "next", !.code = code, !.op = h[r].op,
                                  !.todo = h[r].todo, !.given = h[r].given]
    BY <1>2, <1>3, <2>2 DEF Handlers
  <2> QED BY <1>1, <2>1, <2>2
<1> QED BY <1>1, <1>4

LEMMA GoesMoves ==
  ASSUME Inv, NEW r \in Req, Active(h[r]), NEW at \in Locations \ {"idle", "next", "done"},
         Place(h[r].op, at), Goes(r, at),
         h[r].op = "settings" /\ at \in Writing => h[r].at \in Writing
  PROVE  /\ Moved(r) /\ h'[r].at = at /\ Active(h'[r])
         /\ h'[r].op = h[r].op /\ h'[r].name = h[r].name /\ h'[r].given = h[r].given
         /\ h'[r].app = h[r].app /\ h'[r].alone = h[r].alone
<1>1. /\ h' \in [Req -> Handlers]
      /\ \A q \in Req \ {r} : h'[q] = h[q]
      /\ h'[r] \in Handlers /\ h'[r].at = at
      /\ h'[r].op = h[r].op /\ h'[r].name = h[r].name /\ h'[r].given = h[r].given
      /\ h'[r].app = h[r].app /\ h'[r].alone = h[r].alone
  BY GoesMakes DEF Inv, TypeOK
<1>2. Active(h'[r])
  BY <1>1 DEF Active
<1>3. Form(h[r]) /\ Own(r)
  BY DEF Inv
<1>4. Form(h'[r])
  BY <1>1, <1>2, <1>3 DEF Form, Active
<1>5. Own(r)'
  BY <1>1, <1>2, <1>3 DEF Own
<1> QED BY <1>1, <1>2, <1>4, <1>5 DEF Moved

LEMMA EndsMoves ==
  ASSUME Inv, NEW r \in Req, Active(h[r]), NEW code \in Codes, Ends(r, code)
  PROVE  Moved(r) /\ Stored(r)' /\ ~Active(h'[r]) /\ h'[r].code = code
<1>1. /\ h' \in [Req -> Handlers]
      /\ \A q \in Req \ {r} : h'[q] = h[q]
      /\ h'[r] \in Handlers /\ h'[r].code = code
      /\ \/ h'[r].at = "done" /\ h'[r].op = "none"
         \/ h'[r].at = "next" /\ h'[r].op = h[r].op /\ h'[r].given = h[r].given
  BY EndsMakes DEF Inv, TypeOK
<1>2. ~Active(h'[r])
  BY <1>1 DEF Active
<1>3. Form(h[r])
  BY DEF Inv
<1>4. Form(h'[r])
  BY <1>1, <1>2, <1>3 DEF Form, Active
<1>5. Own(r)' /\ Stored(r)'
  BY <1>1, <1>2 DEF Own, Writing, Stored
<1> QED BY <1>1, <1>2, <1>4, <1>5 DEF Moved

(* A step that leaves the store alone.                                     *)
LEMMA NothingTouched ==
  ASSUME Inv, NEW r \in Req, UNCHANGED <<store, sup, unset>>, failures' \in 0..MaxFailures
  PROVE  Touched(r)
BY DEF Inv, TypeOK, Touched, store, DefinitionHasSettings

(* While it goes on, a handler has nothing to promise.                     *)
LEMMA NotOver ==
  ASSUME NEW r \in Req, Active(h'[r])
  PROVE  Promise(r)
BY DEF Promise, OkIsDone, Heals, EndsAlone

LEMMA GoesQuietly ==
  ASSUME Inv, NEW r \in Req, Active(h[r]), NEW at \in Locations \ {"idle", "next", "done"},
         Place(h[r].op, at), Goes(r, at),
         h[r].op = "settings" /\ at \in Writing => h[r].at \in Writing,
         h[r].alone => StoredAt(r, at),
         UNCHANGED <<store, sup, failures, unset>>
  PROVE  Sound(r)
<1>1. /\ Moved(r) /\ h'[r].at = at /\ Active(h'[r])
      /\ h'[r].op = h[r].op /\ h'[r].name = h[r].name /\ h'[r].given = h[r].given
      /\ h'[r].app = h[r].app /\ h'[r].alone = h[r].alone
  BY GoesMoves
<1>2. Stored(r)'
  BY <1>1 DEF Stored, StoredAt, store
<1>3. Touched(r)
  BY NothingTouched DEF Inv, TypeOK
<1> QED BY <1>1, <1>2, <1>3, NotOver DEF Sound

LEMMA EndsQuietly ==
  ASSUME Inv, NEW r \in Req, Active(h[r]), NEW code \in Codes \ {"ok"}, Ends(r, code),
         h[r].op = "delete" => code \in {"error", "notUndeployed"},
         UNCHANGED <<store, sup, failures, unset>>
  PROVE  Sound(r)
<1>1. Moved(r) /\ Stored(r)' /\ ~Active(h'[r]) /\ h'[r].code = code
  BY EndsMoves
<1>2. Touched(r)
  BY NothingTouched DEF Inv, TypeOK
<1>3. Promise(r)
  BY <1>1 DEF Promise, OkIsDone, Heals
<1> QED BY <1>1, <1>2, <1>3 DEF Sound

LEMMA FailsMoves ==
  ASSUME Inv, NEW r \in Req, Active(h[r]), Fails(r)
  PROVE  Moved(r) /\ Stored(r)' /\ Promise(r) /\ failures' \in 0..MaxFailures
<1>1. Moved(r) /\ Stored(r)' /\ h'[r].code = "error"
  <2>1. "error" \in Codes
    BY DEF Codes
  <2> QED BY <2>1, EndsMoves DEF Fails
<1>2. failures' \in 0..MaxFailures
  BY FailuresAssumption DEF Fails, FailuresLeft, Inv, TypeOK
<1> QED BY <1>1, <1>2 DEF Promise, OkIsDone, Heals

-----------------------------------------------------------------------------
(* Saves and drafts. *)
LEMMA HandlerFacts ==
  ASSUME Inv, NEW r \in Req
  PROVE  /\ Form(h[r]) /\ Own(r) /\ Stored(r)
         /\ h[r] \in Handlers
         /\ Active(h[r]) => Place(h[r].op, h[r].at) /\ h[r].op \in Ops
         /\ Active(h[r]) /\ h[r].op # "cleanup" => h[r].name \in Name
BY DEF Inv, Form, Handlers, Active

LEMMA CheckDeployedStep ==
  ASSUME Inv, NEW r \in Req, CheckDeployed(r)
  PROVE  Sound(r)
<1>1. Active(h[r]) /\ h[r].op \in Saves /\ UNCHANGED <<store, sup, failures, unset>>
  BY HandlerFacts DEF CheckDeployed, Test, Active, Place
<1>2. CASE Ends(r, "deployed")
  BY <1>1, <1>2, EndsQuietly DEF Codes, Saves
<1>3. CASE Goes(r, "compile")
  BY <1>1, <1>3, GoesQuietly DEF Locations, Place, Writing, StoredAt
<1> QED BY <1>2, <1>3 DEF CheckDeployed, Test

LEMMA CompileStep ==
  ASSUME Inv, NEW r \in Req, Compile(r)
  PROVE  Sound(r)
<1>1. Active(h[r]) /\ h[r].op \in Saves /\ UNCHANGED <<store, sup, failures, unset>>
  BY HandlerFacts DEF Compile, Validation, Active, Place
<1>2. CASE Ends(r, "invalid")
  BY <1>1, <1>2, EndsQuietly DEF Codes, Saves
<1>3. CASE Goes(r, "putSettings")
  BY <1>1, <1>3, GoesQuietly DEF Locations, Place, Saves, StoredAt
<1> QED BY <1>2, <1>3 DEF Compile, Validation

LEMMA CheckBucketsStep ==
  ASSUME Inv, NEW r \in Req, CheckBuckets(r)
  PROVE  Sound(r)
<1>1. /\ Active(h[r]) /\ h[r].op \in {"save", "saveDraft", "settings"}
      /\ h[r].at = "checkBuckets" /\ UNCHANGED <<store, sup, failures, unset>>
  BY HandlerFacts DEF CheckBuckets, Validation, Active, Place
<1>2. CASE Ends(r, "invalid")
  BY <1>1, <1>2, EndsQuietly DEF Codes
<1>3. CASE Goes(r, "putDraft")
  <2>1. h[r].alone => StoredAt(r, "putDraft")
    BY <1>1, HandlerFacts DEF Stored, StoredAt
  <2> QED BY <1>1, <1>3, <2>1, GoesQuietly DEF Locations, Place, Writing
<1> QED BY <1>2, <1>3 DEF CheckBuckets, Validation

LEMMA PutSettingsStep ==
  ASSUME Inv, NEW r \in Req, PutSettings(r)
  PROVE  Sound(r)
<1> DEFINE n    == h[r].name
           next == IF h[r].op = "settings" THEN "checkBuckets" ELSE "putApp"
           new  == [settings EXCEPT ![n] = h[r].app.settings]
<1>1. /\ Active(h[r]) /\ h[r].op \in Saves \cup {"settings"} /\ h[r].at = "putSettings"
      /\ UNCHANGED <<apps, temp, sup, unset>>
  BY HandlerFacts DEF PutSettings, Access, Active, Place
<1>2. h[r].name \in Name /\ h[r].app.settings \in Settings /\ h[r].op # "cleanup"
  BY <1>1, HandlerFacts DEF Saves, Handlers, Drafts
<1>3. settings' \in {settings, new} => Touched(r) \/ failures' \notin 0..MaxFailures
  BY <1>1, <1>2, NoneAssumption DEF Touched, Inv, TypeOK, DefinitionHasSettings
<1>4. CASE Fails(r) /\ settings' \in {settings, new}
  BY <1>1, <1>3, <1>4, FailsMoves DEF Sound
<1>5. CASE Goes(r, next) /\ settings' = new /\ failures' = failures
  <2>1. Touched(r)
    BY <1>3, <1>5 DEF Inv, TypeOK
  <2>2. /\ next \in Locations \ {"idle", "next", "done"} /\ Place(h[r].op, next)
        /\ h[r].at \in Writing
    BY <1>1 DEF Locations, Place, Saves, Writing
  <2>3. /\ Moved(r) /\ h'[r].at = next /\ Active(h'[r])
        /\ h'[r].op = h[r].op /\ h'[r].name = h[r].name /\ h'[r].given = h[r].given
        /\ h'[r].app = h[r].app /\ h'[r].alone = h[r].alone
    BY <1>1, <1>5, <2>2, GoesMoves
  <2>4. settings'[n] = h[r].app.settings
    BY <1>2, <1>5 DEF Inv, TypeOK
  <2>5. Stored(r)'
    BY <1>1, <2>3, <2>4 DEF Stored, StoredAt, Saves
  <2> QED BY <2>1, <2>3, <2>5, NotOver DEF Sound
<1> QED BY <1>4, <1>5 DEF PutSettings, Access, Follows

LEMMA PutAppStep ==
  ASSUME Inv, NEW r \in Req, PutApp(r)
  PROVE  Sound(r)
<1> DEFINE n   == h[r].name
           new == [apps EXCEPT ![n] = h[r].app.src]
<1>1. /\ Active(h[r]) /\ h[r].op \in Saves /\ h[r].at = "putApp"
      /\ UNCHANGED <<settings, temp, sup>>
      /\ unset' = IF h[r].alone THEN unset ELSE unset \cup {n}
  BY HandlerFacts DEF PutApp, Access, Active, Place
<1>2. /\ n \in Name /\ h[r].op # "cleanup"
      /\ h[r].app = [src |-> r, settings |-> Supplied(h[r].given, n)]
  BY <1>1, HandlerFacts DEF Saves, Own
<1>3. h[r].app.settings \in Settings /\ h[r].app.src = r
  BY <1>2, HandlerFacts DEF Handlers, Drafts
<1>4. h[r].alone => settings[n] = Supplied(h[r].given, n) /\ settings[n] # None
  BY <1>1, <1>2, <1>3, HandlerFacts, NoneAssumption DEF Stored, StoredAt
<1>5. apps' \in {apps, new} /\ failures' \in 0..MaxFailures => Touched(r)
  BY <1>1, <1>2, <1>3, <1>4, NoneAssumption DEF Touched, Inv, TypeOK, DefinitionHasSettings
<1>6. CASE Fails(r) /\ apps' \in {apps, new}
  BY <1>1, <1>5, <1>6, FailsMoves DEF Sound
<1>7. CASE Follows(r, IF h[r].op = "save" THEN "checkBuckets" ELSE "end")
           /\ apps' = new /\ failures' = failures
  <2>1. Touched(r) /\ apps'[n] = r
    BY <1>2, <1>3, <1>5, <1>7 DEF Inv, TypeOK
  <2>2. CASE h[r].op = "save"
    <3>1. Goes(r, "checkBuckets")
      BY <1>7, <2>2 DEF Follows
    <3>2. /\ Moved(r) /\ h'[r].at = "checkBuckets" /\ Active(h'[r])
          /\ h'[r].op = h[r].op /\ h'[r].name = h[r].name /\ h'[r].given = h[r].given
          /\ h'[r].app = h[r].app /\ h'[r].alone = h[r].alone
      BY <1>1, <2>2, <3>1, GoesMoves DEF Locations, Place
    <3>3. Stored(r)'
      BY <1>1, <1>2, <1>4, <2>1, <3>2 DEF Stored, StoredAt
    <3> QED BY <2>1, <3>2, <3>3, NotOver DEF Sound
  <2>3. CASE h[r].op # "save"
    <3>1. Ends(r, "ok") /\ h[r].op = "setApplication"
      BY <1>1, <1>7, <2>3 DEF Follows, Saves
    <3>2. Moved(r) /\ Stored(r)' /\ ~Active(h'[r]) /\ h'[r].code = "ok"
      BY <1>1, <3>1, EndsMoves DEF Codes
    <3>3. Promise(r)
      BY <1>1, <1>4, <2>1, <3>1 DEF Promise, OkIsDone, Heals, EndsAlone, Deletes
    <3> QED BY <2>1, <3>2, <3>3 DEF Sound
  <2> QED BY <2>2, <2>3
<1> QED BY <1>6, <1>7 DEF PutApp, Access

LEMMA PutDraftStep ==
  ASSUME Inv, NEW r \in Req, PutDraft(r)
  PROVE  Sound(r)
<1> DEFINE n   == h[r].name
           new == [temp EXCEPT ![n] = h[r].app]
<1>1. /\ Active(h[r]) /\ h[r].op \in {"save", "saveDraft", "settings"} /\ h[r].at = "putDraft"
      /\ UNCHANGED <<apps, settings, sup, unset>>
  BY HandlerFacts DEF PutDraft, Access, Active, Place
<1>2. n \in Name /\ h[r].app \in Drafts
  BY <1>1, HandlerFacts DEF Handlers
<1>3. temp' \in {temp, new} /\ failures' \in 0..MaxFailures => Touched(r)
  BY <1>1, <1>2 DEF Touched, Inv, TypeOK, DefinitionHasSettings
<1>4. CASE Fails(r) /\ temp' \in {temp, new}
  BY <1>1, <1>3, <1>4, FailsMoves DEF Sound
<1>5. CASE Ends(r, "ok") /\ temp' = new /\ failures' = failures
  <2>1. Touched(r) /\ temp'[n] = h[r].app
    BY <1>2, <1>3, <1>5 DEF Inv, TypeOK
  <2>2. Moved(r) /\ Stored(r)' /\ ~Active(h'[r]) /\ h'[r].code = "ok"
    BY <1>1, <1>5, EndsMoves DEF Codes
  <2>3. /\ h[r].alone /\ h[r].op \in {"save", "settings"} => settings[n] = h[r].app.settings
        /\ h[r].alone /\ h[r].op = "save" => apps[n] = r
        /\ h[r].op \in {"save", "saveDraft"} =>
             h[r].app = [src |-> r, settings |-> Supplied(h[r].given, n)]
        /\ h[r].op = "settings" =>
             h[r].given \in {"none", "nil", h[r].app.settings.status}
    BY <1>1, HandlerFacts DEF Stored, StoredAt, Own, Saves, Writing
  <2>4. Promise(r)
    BY <1>1, <2>1, <2>3 DEF Promise, OkIsDone, Heals, EndsAlone, Deletes, Saves
  <2> QED BY <2>1, <2>2, <2>4 DEF Sound
<1> QED BY <1>4, <1>5 DEF PutDraft, Access, Follows

-----------------------------------------------------------------------------
(* Deletes. *)
LEMMA FindAppStep ==
  ASSUME Inv, NEW r \in Req, FindApp(r)
  PROVE  Sound(r)
<1>1. /\ Active(h[r]) /\ h[r].op \in Deletes /\ h[r].at = "findApp"
      /\ UNCHANGED <<store, sup, failures, unset>>
  BY HandlerFacts DEF FindApp, Active, Place
<1>2. CASE apps[h[r].name] = None /\ h[r].op = "delete"
  <2>1. Goes(r, "findDraft")
    BY <1>1, <1>2 DEF FindApp, PrimaryEnds, Continues
  <2>2. StoredAt(r, "findDraft")
    BY <1>2 DEF StoredAt
  <2> QED BY <1>1, <1>2, <2>1, <2>2, GoesQuietly DEF Locations, Place
<1>3. CASE apps[h[r].name] = None /\ h[r].op # "delete"
  <2>1. Ends(r, "notDeployed")
    BY <1>1, <1>3 DEF FindApp, PrimaryEnds, Continues
  <2> QED BY <1>1, <1>3, <2>1, EndsQuietly DEF Codes
<1>4. CASE apps[h[r].name] # None
  <2>1. Goes(r, "checkState")
    BY <1>1, <1>4 DEF FindApp
  <2> QED BY <1>1, <2>1, GoesQuietly DEF Locations, Place, Writing, StoredAt
<1> QED BY <1>2, <1>3, <1>4

LEMMA CheckStateStep ==
  ASSUME Inv, NEW r \in Req, CheckState(r)
  PROVE  Sound(r)
<1>1. /\ Active(h[r]) /\ h[r].op \in Deletes /\ h[r].at = "checkState"
      /\ UNCHANGED <<store, sup, failures, unset>>
  BY HandlerFacts DEF CheckState, Active, Place
<1>2. CASE Listed(h[r].name)
  <2>1. Ends(r, "notUndeployed")
    BY <1>1, <1>2 DEF CheckState, PrimaryEnds, Continues
  <2> QED BY <1>1, <2>1, EndsQuietly DEF Codes
<1>3. CASE ~Listed(h[r].name)
  <2>1. Goes(r, "listApps")
    BY <1>1, <1>3 DEF CheckState
  <2> QED BY <1>1, <2>1, GoesQuietly DEF Locations, Place, Writing, StoredAt
<1> QED BY <1>2, <1>3

LEMMA ListAppsStep ==
  ASSUME Inv, NEW r \in Req, ListApps(r)
  PROVE  Sound(r)
<1>1. /\ Active(h[r]) /\ h[r].op \in Deletes /\ h[r].at = "listApps"
      /\ UNCHANGED <<store, sup, failures, unset>>
  BY HandlerFacts DEF ListApps, Active, Place
<1>2. CASE apps[h[r].name] = None /\ h[r].op = "delete"
  <2>1. Goes(r, "findDraft")
    BY <1>1, <1>2 DEF ListApps, PrimaryEnds, Continues
  <2>2. StoredAt(r, "findDraft")
    BY <1>2 DEF StoredAt
  <2> QED BY <1>1, <1>2, <2>1, <2>2, GoesQuietly DEF Locations, Place
<1>3. CASE apps[h[r].name] = None /\ h[r].op # "delete"
  <2>1. Ends(r, "ok") /\ h[r].op = "deleteApplication"
    BY <1>1, <1>3 DEF ListApps, PrimaryEnds, Continues, Deletes
  <2>2. Moved(r) /\ Stored(r)' /\ ~Active(h'[r])
    BY <1>1, <2>1, EndsMoves DEF Codes
  <2>3. Promise(r)
    BY <1>1, <1>3, <2>1 DEF Promise, OkIsDone, Heals, store, Saves
  <2>4. Touched(r)
    BY <1>1, NothingTouched DEF Inv, TypeOK
  <2> QED BY <2>2, <2>3, <2>4 DEF Sound
<1>4. CASE apps[h[r].name] # None
  <2>1. Goes(r, "dropSettings")
    BY <1>1, <1>4 DEF ListApps
  <2> QED BY <1>1, <2>1, GoesQuietly DEF Locations, Place, Writing, StoredAt
<1> QED BY <1>2, <1>3, <1>4

LEMMA DropSettingsStep ==
  ASSUME Inv, NEW r \in Req, DropSettings(r)
  PROVE  Sound(r)
<1> DEFINE n   == h[r].name
           new == [settings EXCEPT ![n] = None]
<1>1. /\ Active(h[r]) /\ h[r].op \in Deletes /\ h[r].at = "dropSettings"
      /\ UNCHANGED <<apps, temp, sup>> /\ unset' = unset \cup {n}
  BY HandlerFacts DEF DropSettings, Access, Active, Place
<1>2. n \in Name /\ h[r].op # "cleanup"
  BY <1>1, HandlerFacts DEF Deletes
<1>3. settings' \in {settings, new} /\ failures' \in 0..MaxFailures => Touched(r)
  BY <1>1, <1>2 DEF Touched, Inv, TypeOK
<1>4. CASE Fails(r) /\ settings' \in {settings, new}
  BY <1>1, <1>3, <1>4, FailsMoves DEF Sound
<1>5. CASE Goes(r, "dropApp") /\ settings' = new /\ failures' = failures
  <2>1. Touched(r)
    BY <1>3, <1>5 DEF Inv, TypeOK
  <2>2. Moved(r) /\ h'[r].at = "dropApp" /\ Active(h'[r])
    BY <1>1, <1>5, GoesMoves DEF Locations, Place, Writing
  <2> QED BY <2>1, <2>2, NotOver DEF Sound, Stored, StoredAt
<1> QED BY <1>4, <1>5 DEF DropSettings, Access, Follows

LEMMA DropAppStep ==
  ASSUME Inv, NEW r \in Req, DropApp(r)
  PROVE  Sound(r)
<1> DEFINE n   == h[r].name
           new == [apps EXCEPT ![n] = None]
<1>1. /\ Active(h[r]) /\ h[r].op \in Deletes /\ h[r].at = "dropApp"
      /\ UNCHANGED <<settings, temp, sup>>
      /\ unset' = IF apps'[n] = None /\ h[r].alone THEN unset \ {n} ELSE unset
  BY HandlerFacts DEF DropApp, Access, Active, Place
<1>2. n \in Name /\ h[r].op # "cleanup"
  BY <1>1, HandlerFacts DEF Deletes
<1>3. apps' \in {apps, new} /\ failures' \in 0..MaxFailures => Touched(r)
  BY <1>1, <1>2 DEF Touched, Inv, TypeOK, DefinitionHasSettings
<1>4. CASE Fails(r) /\ apps' \in {apps, new}
  BY <1>1, <1>3, <1>4, FailsMoves DEF Sound
<1>5. CASE /\ Follows(r, IF Continues(h[r].op, "ok") THEN "findDraft" ELSE "end")
           /\ apps' = new /\ failures' = failures
  <2>1. Touched(r) /\ apps'[n] = None
    BY <1>2, <1>3, <1>5 DEF Inv, TypeOK
  <2>2. CASE h[r].op = "delete"
    <3>1. Goes(r, "findDraft")
      BY <1>5, <2>2 DEF Follows, Continues
    <3>2. /\ Moved(r) /\ h'[r].at = "findDraft" /\ Active(h'[r])
          /\ h'[r].op = h[r].op /\ h'[r].name = h[r].name
      BY <1>1, <2>2, <3>1, GoesMoves DEF Locations, Place, Writing
    <3>3. Stored(r)'
      BY <2>1, <3>2 DEF Stored, StoredAt
    <3> QED BY <2>1, <3>2, <3>3, NotOver DEF Sound
  <2>3. CASE h[r].op # "delete"
    <3>1. Ends(r, "ok") /\ h[r].op = "deleteApplication"
      BY <1>1, <1>5, <2>3 DEF Follows, Continues, Deletes
    <3>2. Moved(r) /\ Stored(r)' /\ ~Active(h'[r])
      BY <1>1, <3>1, EndsMoves DEF Codes
    <3>3. Promise(r)
      BY <2>1, <3>1 DEF Promise, OkIsDone, Heals, Saves
    <3> QED BY <2>1, <3>2, <3>3 DEF Sound
  <2> QED BY <2>2, <2>3
<1> QED BY <1>4, <1>5 DEF DropApp, Access

LEMMA FindDraftStep ==
  ASSUME Inv, NEW r \in Req, FindDraft(r)
  PROVE  Sound(r)
<1>1. /\ Active(h[r]) /\ h[r].op \in {"delete", "deleteDraft"} /\ h[r].at = "findDraft"
      /\ UNCHANGED <<store, sup, failures, unset>>
  BY HandlerFacts DEF FindDraft, Test, Active, Place
<1>2. h[r].alone /\ h[r].op = "delete" => apps[h[r].name] = None
  BY <1>1, HandlerFacts DEF Stored, StoredAt
<1>3. CASE temp[h[r].name] = None /\ Ends(r, "notDeployed")
  <2>1. Moved(r) /\ Stored(r)' /\ h'[r].code = "notDeployed"
    BY <1>1, <1>3, EndsMoves DEF Codes
  <2>2. Promise(r)
    BY <1>1, <1>2, <1>3, <2>1 DEF Promise, OkIsDone, Heals, EndsAlone, store
  <2>3. Touched(r)
    BY <1>1, NothingTouched DEF Inv, TypeOK
  <2> QED BY <2>1, <2>2, <2>3 DEF Sound
<1>4. CASE Goes(r, "checkDraftState")
  <2>1. h[r].alone => StoredAt(r, "checkDraftState")
    BY <1>2 DEF StoredAt
  <2> QED BY <1>1, <1>4, <2>1, GoesQuietly DEF Locations, Place, Writing
<1> QED BY <1>3, <1>4 DEF FindDraft, Test

LEMMA CheckDraftStateStep ==
  ASSUME Inv, NEW r \in Req, CheckDraftState(r)
  PROVE  Sound(r)
<1>1. /\ Active(h[r]) /\ h[r].op \in {"delete", "deleteDraft"}
      /\ h[r].at = "checkDraftState" /\ UNCHANGED <<store, sup, failures, unset>>
  BY HandlerFacts DEF CheckDraftState, Test, Active, Place
<1>2. CASE Ends(r, "notUndeployed")
  BY <1>1, <1>2, EndsQuietly DEF Codes
<1>3. CASE Goes(r, "dropDraft")
  <2>1. h[r].alone => StoredAt(r, "dropDraft")
    BY <1>1, HandlerFacts DEF Stored, StoredAt
  <2> QED BY <1>1, <1>3, <2>1, GoesQuietly DEF Locations, Place, Writing
<1> QED BY <1>2, <1>3 DEF CheckDraftState, Test

LEMMA DropDraftStep ==
  ASSUME Inv, NEW r \in Req, DropDraft(r)
  PROVE  Sound(r)
<1> DEFINE n   == h[r].name
           new == [temp EXCEPT ![n] = None]
<1>1. /\ Active(h[r]) /\ h[r].op \in {"delete", "deleteDraft"} /\ h[r].at = "dropDraft"
      /\ UNCHANGED <<apps, settings, sup, unset>>
  BY HandlerFacts DEF DropDraft, Access, Active, Place
<1>2. n \in Name
  BY <1>1, HandlerFacts
<1>3. temp' \in {temp, new} /\ failures' \in 0..MaxFailures => Touched(r)
  BY <1>1, <1>2 DEF Touched, Inv, TypeOK, DefinitionHasSettings
<1>4. CASE Fails(r) /\ temp' \in {temp, new}
  BY <1>1, <1>3, <1>4, FailsMoves DEF Sound
<1>5. CASE Ends(r, "ok") /\ temp' = new /\ failures' = failures
  <2>1. Touched(r) /\ temp'[n] = None
    BY <1>2, <1>3, <1>5 DEF Inv, TypeOK
  <2>2. Moved(r) /\ Stored(r)'
    BY <1>1, <1>5, EndsMoves DEF Codes
  <2>3. h[r].alone /\ h[r].op = "delete" => apps[n] = None
    BY <1>1, HandlerFacts DEF Stored, StoredAt
  <2>4. Promise(r)
    BY <1>1, <2>1, <2>3 DEF Promise, OkIsDone, Heals, EndsAlone, Deletes, Saves
  <2> QED BY <2>1, <2>2, <2>4 DEF Sound
<1> QED BY <1>4, <1>5 DEF DropDraft, Access, Follows

-----------------------------------------------------------------------------
(* Settings. *)
LEMMA UnmarshalTyped ==
  ASSUME NEW app \in Drafts, NEW draft \in Drafts
  PROVE  Unmarshal(app, draft) \in Drafts
<1>1. /\ app.settings.status \in Statuses /\ app.settings.of \subseteq Name
      /\ draft.settings.status \in Statuses /\ draft.settings.of \subseteq Name
      /\ draft.src \in Req \cup {None}
  BY DEF Drafts, Settings
<1>2. Nil \in Settings
  BY DEF Nil, Settings, Statuses
<1> QED BY <1>1, <1>2 DEF Unmarshal, Drafts, Settings

LEMMA ReadingMoves ==
  ASSUME Inv, NEW r \in Req, Active(h[r]), h[r].op = "settings",
         h' \in [Req -> Handlers], \A q \in Req \ {r} : h'[q] = h[q],
         h'[r].at \in {"readDraft", "validate"}, h'[r].op = h[r].op,
         h'[r].name = h[r].name, h'[r].alone = h[r].alone, h'[r].given = h[r].given
  PROVE  Moved(r) /\ Stored(r)' /\ Active(h'[r])
<1>1. Active(h'[r]) /\ Form(h'[r])
  BY HandlerFacts DEF Active, Form, Place
<1>2. Own(r)' /\ Stored(r)'
  BY DEF Own, Saves, Writing, Stored, StoredAt
<1> QED BY <1>1, <1>2 DEF Moved

LEMMA ListDraftsStep ==
  ASSUME Inv, NEW r \in Req, ListDrafts(r)
  PROVE  Sound(r)
<1>0. PICK names \in SUBSET Name : names = {n \in Name : temp[n] # None}
  OBVIOUS
<1>1. /\ Active(h[r]) /\ h[r].op = "settings"
      /\ UNCHANGED <<store, sup, failures, unset>>
      /\ h' = [h EXCEPT ![r].at = "readDraft", ![r].list = names]
  BY <1>0, HandlerFacts DEF ListDrafts, Active, Place
<1>2. /\ h'[r] \in Handlers => h' \in [Req -> Handlers]
      /\ \A q \in Req \ {r} : h'[q] = h[q]
      /\ h'[r] = [h[r] EXCEPT !.at = "readDraft", !.list = names]
  BY <1>1 DEF Inv, TypeOK
<1>3. /\ h'[r] \in Handlers /\ h'[r].at = "readDraft" /\ h'[r].op = h[r].op
      /\ h'[r].name = h[r].name /\ h'[r].alone = h[r].alone /\ h'[r].given = h[r].given
  BY <1>2, HandlerFacts DEF Handlers, Locations
<1>4. Moved(r) /\ Stored(r)' /\ Active(h'[r])
  BY <1>1, <1>2, <1>3, ReadingMoves
<1>5. Touched(r)
  BY <1>1, NothingTouched DEF Inv, TypeOK
<1> QED BY <1>4, <1>5, NotOver DEF Sound

LEMMA ReadDraftStep ==
  ASSUME Inv, NEW r \in Req, ReadDraft(r)
  PROVE  Sound(r)
<1>1. /\ Active(h[r]) /\ h[r].op = "settings" /\ h[r].at = "readDraft"
      /\ UNCHANGED <<store, sup, unset>>
  BY HandlerFacts DEF ReadDraft, Active, Place
<1>2. PICK m \in h[r].list :
       \/ /\ h' = [h EXCEPT ![r].list = @ \ {m}]
          /\ IF temp[m] = None THEN UNCHANGED failures
                               ELSE FailuresLeft /\ failures' = failures + 1
       \/ /\ temp[m] # None
          /\ h' = [h EXCEPT ![r].at = IF m = h[r].name THEN "validate" ELSE @,
                            ![r].list = IF m = h[r].name THEN {} ELSE @ \ {m},
                            ![r].app = Unmarshal(@, temp[m])]
          /\ UNCHANGED failures
  BY DEF ReadDraft
<1>3. failures' \in 0..MaxFailures
  BY <1>2, FailuresAssumption DEF FailuresLeft, Inv, TypeOK
<1>4. Touched(r)
  BY <1>1, <1>3, NothingTouched
<1>5. h[r] \in Handlers /\ h[r].list \in SUBSET Name /\ h[r].app \in Drafts
  BY HandlerFacts DEF Handlers
<1>6. /\ h'[r] \in Handlers => h' \in [Req -> Handlers]
      /\ \A q \in Req \ {r} : h'[q] = h[q]
  BY <1>2 DEF Inv, TypeOK
<1>7. /\ h'[r] \in Handlers /\ h'[r].at \in {"readDraft", "validate"} /\ h'[r].op = h[r].op
      /\ h'[r].name = h[r].name /\ h'[r].alone = h[r].alone /\ h'[r].given = h[r].given
  <2>1. CASE h' = [h EXCEPT ![r].list = @ \ {m}]
    <3>1. h'[r] = [h[r] EXCEPT !.list = h[r].list \ {m}]
      BY <2>1 DEF Inv, TypeOK
    <3> QED BY <1>1, <1>5, <3>1 DEF Handlers
  <2>2. CASE /\ temp[m] # None
             /\ h' = [h EXCEPT ![r].at = IF m = h[r].name THEN "validate" ELSE @,
                            ![r].list = IF m = h[r].name THEN {} ELSE @ \ {m},
                            ![r].app = Unmarshal(@, temp[m])]
    <3> DEFINE at   == IF m = h[r].name THEN "validate" ELSE "readDraft"
               list == IF m = h[r].name THEN {} ELSE h[r].list \ {m}
               app  == Unmarshal(h[r].app, temp[m])
    <3>1. h'[r] = [h[r] EXCEPT !.at = at, !.list = list, !.app = app]
      BY <1>1, <2>2 DEF Inv, TypeOK
    <3>2. at \in {"readDraft", "validate"} /\ list \in SUBSET Name /\ app \in Drafts
      BY <1>5, <2>2, UnmarshalTyped DEF Inv, TypeOK
    <3> HIDE DEF at, list, app
    <3> QED BY <1>5, <3>1, <3>2 DEF Handlers, Locations
  <2> QED BY <1>2, <2>1, <2>2
<1>8. Moved(r) /\ Stored(r)' /\ Active(h'[r])
  BY <1>1, <1>6, <1>7, ReadingMoves
<1> QED BY <1>4, <1>8, NotOver DEF Sound

LEMMA NotFoundStep ==
  ASSUME Inv, NEW r \in Req, NotFound(r)
  PROVE  Sound(r)
<1>1. /\ Active(h[r]) /\ h[r].op = "settings" /\ Ends(r, "notFound")
      /\ UNCHANGED <<store, sup, failures, unset>>
  BY HandlerFacts DEF NotFound, Active, Place
<1> QED BY <1>1, EndsQuietly DEF Codes

LEMMA ValidateStep ==
  ASSUME Inv, NEW r \in Req, Validate(r)
  PROVE  Sound(r)
<1> DEFINE new == Override(h[r].app.settings, h[r].given, h[r].name)
<1>1. /\ Active(h[r]) /\ h[r].op = "settings" /\ h[r].at = "validate"
      /\ UNCHANGED <<store, sup, failures, unset>>
  BY HandlerFacts DEF Validate, Active, Place
<1>2. CASE \E code \in {"panic", "noStatus", "notInit"} : Ends(r, code)
  BY <1>1, <1>2, EndsQuietly DEF Codes
<1>3. CASE h' = [h EXCEPT ![r].at = "putSettings", ![r].app.settings = new]
  <2>1. /\ h[r].app \in Drafts /\ h[r].app.settings \in Settings
        /\ h[r].given \in Statuses \cup {"nil"} /\ h[r].name \in Name
    BY <1>1, HandlerFacts DEF Form, Handlers, Drafts
  <2>2. new \in Settings /\ h[r].given \in {"none", "nil", new.status}
    BY <2>1 DEF Override, Settings
  <2> HIDE DEF new
  <2> DEFINE app == [h[r].app EXCEPT !.settings = new]
  <2>3. app \in Drafts /\ app.settings = new
    BY <2>1, <2>2 DEF Drafts
  <2>4. /\ h' = [q \in Req |-> h'[q]] /\ \A q \in Req \ {r} : h'[q] = h[q]
        /\ h'[r] = [h[r] EXCEPT !.at = "putSettings", !.app = app]
    BY <1>3 DEF Inv, TypeOK
  <2> HIDE DEF app
  <2>5. /\ h'[r] \in Handlers /\ h'[r].at = "putSettings" /\ h'[r].op = h[r].op
        /\ h'[r].name = h[r].name /\ h'[r].alone = h[r].alone
        /\ h'[r].given = h[r].given /\ h'[r].app = app
    BY <2>3, <2>4, HandlerFacts DEF Handlers, Locations
  <2>6. h' \in [Req -> Handlers]
    BY <2>4, <2>5 DEF Inv, TypeOK
  <2>7. Active(h'[r]) /\ Form(h'[r])
    BY <1>1, <2>5, HandlerFacts DEF Active, Form, Place
  <2>8. Own(r)' /\ Stored(r)'
    BY <1>1, <2>2, <2>3, <2>5 DEF Own, Saves, Writing, Stored, StoredAt
  <2>9. Touched(r)
    BY <1>1, NothingTouched DEF Inv, TypeOK
  <2> QED BY <1>1, <2>4, <2>5, <2>6, <2>7, <2>8, <2>9, NotOver DEF Sound, Moved
<1> QED BY <1>2, <1>3 DEF Validate

-----------------------------------------------------------------------------
(* Cleanup. *)
LEMMA CleanAppsStep ==
  ASSUME Inv, NEW r \in Req, CleanApps(r)
  PROVE  Sound(r)
<1>1. /\ Active(h[r]) /\ h[r].op = "cleanup" /\ h[r].at = "cleanApps" /\ apps' = Nothing
      /\ UNCHANGED <<settings, temp, sup, failures, unset>> /\ Goes(r, "cleanDrafts")
  BY HandlerFacts DEF CleanApps, Active, Place
<1>2. /\ Moved(r) /\ h'[r].at = "cleanDrafts" /\ Active(h'[r])
  BY <1>1, GoesMoves DEF Locations, Place, Writing
<1>3. Stored(r)'
  BY <1>1, <1>2 DEF Stored, StoredAt, Nothing
<1>4. Touched(r)
  BY <1>1 DEF Touched, Nothing, Inv, TypeOK
<1> QED BY <1>2, <1>3, <1>4, NotOver DEF Sound

LEMMA CleanDraftsStep ==
  ASSUME Inv, NEW r \in Req, CleanDrafts(r)
  PROVE  Sound(r)
<1>1. /\ Active(h[r]) /\ h[r].op = "cleanup" /\ h[r].at = "cleanDrafts" /\ temp' = Nothing
      /\ UNCHANGED <<apps, settings, sup, failures, unset>> /\ Goes(r, "cleanSettings")
  BY HandlerFacts DEF CleanDrafts, Active, Place
<1>2. /\ Moved(r) /\ h'[r].at = "cleanSettings" /\ Active(h'[r]) /\ h'[r].alone = h[r].alone
  BY <1>1, GoesMoves DEF Locations, Place, Writing
<1>3. h[r].alone => apps = Nothing
  BY <1>1, HandlerFacts DEF Stored, StoredAt
<1>4. Stored(r)'
  BY <1>1, <1>2, <1>3 DEF Stored, StoredAt, Nothing
<1>5. Touched(r)
  BY <1>1 DEF Touched, Nothing, Inv, TypeOK, DefinitionHasSettings
<1> QED BY <1>2, <1>4, <1>5, NotOver DEF Sound

LEMMA CleanSettingsStep ==
  ASSUME Inv, NEW r \in Req, CleanSettings(r)
  PROVE  Sound(r)
<1>1. /\ Active(h[r]) /\ h[r].op = "cleanup" /\ h[r].at = "cleanSettings"
      /\ settings' = Nothing /\ UNCHANGED <<apps, temp, sup, failures>>
      /\ unset' = IF h[r].alone THEN {} ELSE Name
      /\ Ends(r, "ok")
  BY HandlerFacts DEF CleanSettings, Active, Place
<1>2. Moved(r) /\ Stored(r)'
  BY <1>1, EndsMoves DEF Codes
<1>3. h[r].alone => apps = Nothing /\ temp = Nothing
  BY <1>1, HandlerFacts DEF Stored, StoredAt
<1>4. Promise(r)
  BY <1>1, <1>3 DEF Promise, OkIsDone, Heals, EndsAlone, Deletes, Saves, Nothing
<1>5. Touched(r)
  BY <1>1, <1>3 DEF Touched, Nothing, Inv, TypeOK
<1> QED BY <1>2, <1>4, <1>5 DEF Sound

-----------------------------------------------------------------------------
(* A handler that moves on soundly disturbs nobody else who is alone.      *)
LEMMA SoundKeepsInv ==
  ASSUME Inv, NEW r \in Req, Sound(r)
  PROVE  Inv'
<1>1. TypeOK'
  BY DEF Sound, Moved, Touched, Inv, TypeOK
<1>2. Apart'
  <2> SUFFICES ASSUME NEW p \in Req, NEW q \in Req, p # q,
                      Active(h'[p]), Active(h'[q]), h'[p].alone
               PROVE  h'[p].name # h'[q].name /\ h'[p].op # "cleanup" /\ h'[q].op # "cleanup"
    BY DEF Apart
  <2>1. \A x \in {p, q} : /\ Active(h[x]) /\ h'[x].name = h[x].name
                          /\ h'[x].op = h[x].op /\ h'[x].alone = h[x].alone
    BY DEF Sound, Moved
  <2> QED BY <2>1 DEF Inv, Apart
<1>3. ASSUME NEW q \in Req
      PROVE  Form(h'[q]) /\ Own(q)' /\ Stored(q)'
  <2>1. CASE q = r
    BY <2>1 DEF Sound, Moved
  <2>2. CASE q # r
    <3>1. h'[q] = h[q] /\ Active(h[r])
      BY <2>2 DEF Sound, Moved
    <3>2. Form(h'[q]) /\ Own(q)'
      BY <3>1, HandlerFacts DEF Own
    <3>3. ASSUME Active(h[q]), h[q].alone
          PROVE  StoredAt(q, h[q].at)'
      <4>1. h[q].name # h[r].name /\ h[q].op # "cleanup" /\ h[r].op # "cleanup"
        BY <2>2, <3>1, <3>3 DEF Inv, Apart
      <4>2. h[q].name \in Name /\ StoredAt(q, h[q].at)
        BY <3>3, <4>1, HandlerFacts DEF Stored
      <4>3. /\ apps'[h[q].name] = apps[h[q].name]
            /\ settings'[h[q].name] = settings[h[q].name]
        BY <4>1, <4>2 DEF Sound, Touched
      <4>4. h[q].at \notin {"cleanDrafts", "cleanSettings"}
        BY <3>3, <4>1, HandlerFacts DEF Place
      <4> QED BY <3>1, <4>2, <4>3, <4>4 DEF StoredAt
    <3> QED BY <3>1, <3>2, <3>3 DEF Stored
  <2> QED BY <2>1, <2>2
<1>4. DefinitionHasSettings'
  <2> SUFFICES ASSUME NEW n \in Name, apps'[n] # None, settings'[n] = None
               PROVE  n \in unset'
    BY DEF DefinitionHasSettings
  <2>1. CASE n = h[r].name \/ h[r].op = "cleanup"
    BY <2>1 DEF Sound, Touched
  <2>2. CASE n # h[r].name /\ h[r].op # "cleanup"
    BY <2>2 DEF Sound, Touched, Inv, DefinitionHasSettings
  <2> QED BY <2>1, <2>2
<1> QED BY <1>1, <1>2, <1>3, <1>4 DEF Inv

(* Taking a name, a handler finds out whether it is alone with it.         *)
LEMMA TakeKeepsInv ==
  ASSUME Inv, NEW r \in Req, Take(r)
  PROVE  Inv' /\ \A q \in Req : Active(h'[q]) \/ ~Active(h[q])
<1> DEFINE op == h[r].op
<1>1. /\ h[r].at = "next" /\ op \in Ops /\ h[r] \in Handlers
      /\ UNCHANGED <<store, sup, failures, unset>>
  BY HandlerFacts DEF Take, Form
<1>2. PICK n \in h[r].todo :
       LET name   == IF op = "cleanup" THEN None ELSE n
           others == {q \in Req \ {r} : Touches(h[q], name)}
           app    == IF op \in Saves \cup {"saveDraft"}
                       THEN [src |-> r, settings |-> Supplied(h[r].given, n)]
                       ELSE NoDraft
       IN h' = [q \in Req |->
                 IF q = r THEN [h[r] EXCEPT !.at = Entry(op), !.todo = @ \ {n},
                                            !.name = name, !.app = app,
                                            !.alone = others = {}]
                 ELSE IF q \in others THEN [h[q] EXCEPT !.alone = FALSE]
                 ELSE h[q]]
  BY DEF Take
<1> DEFINE name   == IF op = "cleanup" THEN None ELSE n
           others == {q \in Req \ {r} : Touches(h[q], name)}
           app    == IF op \in Saves \cup {"saveDraft"}
                       THEN [src |-> r, settings |-> Supplied(h[r].given, n)]
                       ELSE NoDraft
           left   == h[r].todo \ {n}
           alone  == others = {}
<1>3. /\ n \in Name /\ left \in SUBSET Name /\ h[r].given \in Statuses \cup {"nil"}
  BY <1>1 DEF Handlers
<1>4. /\ name \in Name \cup {None} /\ alone \in BOOLEAN
      /\ name = None <=> op = "cleanup"
  BY <1>3, NoneAssumption
<1>5. app \in Drafts
  <2>1. Supplied(h[r].given, n) \in Settings /\ Nil \in Settings
    BY <1>3 DEF Supplied, Settings, Nil, Statuses
  <2> QED BY <2>1 DEF Drafts, NoDraft
<1>6. /\ h'[r] = [h[r] EXCEPT !.at = Entry(op), !.todo = left, !.name = name,
                              !.app = app, !.alone = alone]
      /\ \A q \in others : h'[q] = [h[q] EXCEPT !.alone = FALSE]
      /\ \A q \in Req \ {r} : q \notin others => h'[q] = h[q]
      /\ (\A q \in Req : h'[q] \in Handlers) => h' \in [Req -> Handlers]
  BY <1>2
<1>7. /\ Entry(op) \in Locations \ {"idle", "next", "done"} /\ Place(op, Entry(op))
      /\ Entry(op) \in {"checkDeployed", "findApp", "checkBuckets", "findDraft",
                        "listDrafts", "cleanApps"}
  BY <1>1 DEF Entry, Locations, Place, Ops, Saves, Deletes
<1>8. \A q \in Req : q \in others <=> q # r /\ Touches(h[q], name)
  OBVIOUS
<1> HIDE DEF name, others, app, left, alone
<1>9. /\ h'[r] \in Handlers /\ h'[r].at = Entry(op) /\ h'[r].op = op
      /\ h'[r].name = name /\ h'[r].app = app /\ h'[r].alone = alone
      /\ h'[r].given = h[r].given
  <2>1. \A c \in Handlers, e \in Locations :
          LET d == [c EXCEPT !.at = e, !.todo = left, !.name = name, !.app = app,
                             !.alone = alone]
          IN /\ d \in Handlers /\ d.at = e /\ d.op = c.op /\ d.name = name
             /\ d.app = app /\ d.alone = alone /\ d.given = c.given
    BY <1>3, <1>4, <1>5 DEF Handlers
  <2>2. h[r] \in Handlers /\ h[r].op = op /\ Entry(op) \in Locations BY <1>1, <1>7
  <2> DEFINE d == [h[r] EXCEPT !.at = Entry(op), !.todo = left, !.name = name,
                               !.app = app, !.alone = alone]
  <2>3. /\ d \in Handlers /\ d.at = Entry(op) /\ d.op = h[r].op /\ d.name = name
        /\ d.app = app /\ d.alone = alone /\ d.given = h[r].given
    BY <2>1, <2>2
  <2>4. h'[r] = d BY <1>6
  <2> HIDE DEF d
  <2> QED BY <2>3, <2>4
<1>10. ASSUME NEW q \in Req, q # r
       PROVE  /\ h'[q] \in Handlers /\ h'[q].at = h[q].at /\ h'[q].op = h[q].op
              /\ h'[q].name = h[q].name /\ h'[q].app = h[q].app
              /\ h'[q].given = h[q].given
              /\ h'[q].alone <=> h[q].alone /\ q \notin others
  <2>1. h[q] \in Handlers
    BY HandlerFacts
  <2>2. CASE q \in others
    <3>1. h'[q] = [h[q] EXCEPT !.alone = FALSE]
      BY <1>6, <2>2
    <3>2. /\ h'[q] \in Handlers /\ h'[q].at = h[q].at /\ h'[q].op = h[q].op
          /\ h'[q].name = h[q].name /\ h'[q].app = h[q].app
          /\ h'[q].given = h[q].given /\ ~h'[q].alone
      BY <2>1, <3>1 DEF Handlers
    <3> QED BY <2>2, <3>2
  <2>3. CASE q \notin others
    BY <1>6, <1>10, <2>1, <2>3 DEF Handlers
  <2> QED BY <2>2, <2>3
<1>11. ~Active(h[r]) /\ Active(h'[r]) /\ \A q \in Req \ {r} : Active(h'[q]) <=> Active(h[q])
  BY <1>1, <1>7, <1>9, <1>10 DEF Active
<1>12. TypeOK'
  <2>1. h' \in [Req -> Handlers]
    BY <1>6, <1>9, <1>10
  <2> QED BY <1>1, <2>1 DEF Inv, TypeOK, store
<1>13. ASSUME NEW q \in Req
       PROVE  Form(h'[q]) /\ Own(q)' /\ Stored(q)'
  <2>1. CASE q = r
    <3>1. Form(h'[r])
      BY <1>1, <1>4, <1>7, <1>9, HandlerFacts DEF Form, Active
    <3>2. Own(r)'
      <4>1. op \in Saves \cup {"saveDraft"} =>
              app = [src |-> r, settings |-> Supplied(h[r].given, name)]
        BY DEF app, name, Saves
      <4>2. op = "settings" => Entry(op) = "listDrafts"
        BY DEF Entry, Saves, Deletes
      <4> QED BY <1>9, <4>1, <4>2 DEF Own, Writing
    <3>3. Stored(r)'
      <4>1. /\ op = "save" => Entry(op) = "checkDeployed"
            /\ op = "settings" => Entry(op) = "listDrafts"
            /\ op = "delete" => Entry(op) = "findApp"
        BY DEF Entry, Saves, Deletes
      <4> QED BY <1>7, <1>9, <4>1 DEF Stored, StoredAt
    <3> QED BY <2>1, <3>1, <3>2, <3>3
  <2>2. CASE q # r
    <3>1. Form(h'[q])
      BY <1>10, <1>11, <2>2, HandlerFacts DEF Form
    <3>2. Own(q)'
      BY <1>10, <1>11, <2>2, HandlerFacts DEF Own
    <3>3. Stored(q)'
      BY <1>1, <1>10, <1>11, <2>2, HandlerFacts DEF Stored, StoredAt, store
    <3> QED BY <3>1, <3>2, <3>3
  <2> QED BY <2>1, <2>2
<1>14. Apart'
  <2> SUFFICES ASSUME NEW p \in Req, NEW q \in Req, p # q,
                      Active(h'[p]), Active(h'[q]), h'[p].alone
               PROVE  h'[p].name # h'[q].name /\ h'[p].op # "cleanup" /\ h'[q].op # "cleanup"
    BY DEF Apart
  <2>1. CASE p = r
    <3>1. others = {} /\ Active(h[q])
      BY <1>9, <1>11, <2>1 DEF alone
    <3>2. ~Touches(h[q], name)
      BY <1>8, <2>1, <3>1
    <3> QED BY <1>4, <1>9, <1>10, <2>1, <3>1, <3>2 DEF Touches
  <2>2. CASE q = r
    <3>1. p \notin others /\ Active(h[p])
      BY <1>10, <1>11, <2>2
    <3>2. ~Touches(h[p], name)
      BY <1>8, <2>2, <3>1
    <3> QED BY <1>4, <1>9, <1>10, <2>2, <3>1, <3>2 DEF Touches
  <2>3. CASE p # r /\ q # r
    BY <1>10, <1>11, <2>3 DEF Inv, Apart
  <2> QED BY <2>1, <2>2, <2>3
<1>15. DefinitionHasSettings'
  BY <1>1 DEF Inv, DefinitionHasSettings, store
<1> QED BY <1>11, <1>12, <1>13, <1>14, <1>15 DEF Inv

LEMMA SubmitKeepsInv ==
  ASSUME Inv, NEW r \in Req, NEW op \in Ops, Submit(r, op)
  PROVE  Inv' /\ \A q \in Req : Active(h'[q]) \/ ~Active(h[q])
<1>1. h[r].at = "idle" /\ h[r] \in Handlers /\ UNCHANGED <<store, sup, failures, unset>>
  BY HandlerFacts DEF Submit
<1>2. PICK todo \in SUBSET Name, given \in Statuses \cup {"nil"} :
        h' = [h EXCEPT ![r].op = op, ![r].at = "next", ![r].given = given,
                       ![r].todo = todo]
  <2>1. PICK todo \in {{n} : n \in Name}
                   \cup (IF op = "save" THEN SUBSET Name ELSE {})
                   \cup (IF op = "delete" THEN SUBSET {n \in Name : temp[n] # None} ELSE {}),
        given \in IF op \in Saves \cup {"saveDraft", "settings"} THEN Given ELSE {"nil"} :
       h' = [h EXCEPT ![r].op = op, ![r].at = "next", ![r].given = given, ![r].todo = todo]
    BY DEF Submit
  <2>2. todo \in SUBSET Name
    OBVIOUS
  <2>3. given \in Statuses \cup {"nil"}
    BY GivenAssumption
  <2> QED BY <2>1, <2>2, <2>3
<1>3. /\ \A q \in Req \ {r} : h'[q] = h[q]
      /\ h'[r] = [h[r] EXCEPT !.op = op, !.at = "next", !.given = given, !.todo = todo]
      /\ h'[r] \in Handlers => h' \in [Req -> Handlers]
  BY <1>2 DEF Inv, TypeOK
<1>4. h'[r] \in Handlers /\ h'[r].at = "next" /\ h'[r].op = op /\ h'[r].given = given
  BY <1>1, <1>3 DEF Handlers, Locations
<1>5. ~Active(h'[r]) /\ ~Active(h[r])
  BY <1>1, <1>4 DEF Active
<1>6. TypeOK'
  BY <1>1, <1>3, <1>4 DEF Inv, TypeOK, store
<1>7. ASSUME NEW q \in Req
      PROVE  Form(h'[q]) /\ Own(q)' /\ Stored(q)'
  <2>1. CASE q = r
    BY <1>2, <1>4, <1>5, <2>1 DEF Form, Own, Stored, Writing
  <2>2. CASE q # r
    BY <1>1, <1>3, <2>2, HandlerFacts DEF Own, Stored, StoredAt, store
  <2> QED BY <2>1, <2>2
<1>8. Apart'
  <2> SUFFICES ASSUME NEW p \in Req, NEW q \in Req, p # q,
                      Active(h'[p]), Active(h'[q]), h'[p].alone
               PROVE  h'[p].name # h'[q].name /\ h'[p].op # "cleanup" /\ h'[q].op # "cleanup"
    BY DEF Apart
  <2>1. h'[p] = h[p] /\ h'[q] = h[q]
    BY <1>3, <1>5
  <2> QED BY <2>1 DEF Inv, Apart
<1>9. DefinitionHasSettings'
  BY <1>1 DEF Inv, DefinitionHasSettings, store
<1> QED BY <1>3, <1>5, <1>6, <1>7, <1>8, <1>9 DEF Inv

(* The supervisor only follows.                                            *)
LEMMA SupervisorKeepsInv ==
  ASSUME Inv, UNCHANGED <<store, h, failures, unset>>,
         sup' \in [Name -> {"undeployed", "starting", "deployed"}]
  PROVE  Inv'
BY DEF Inv, TypeOK, Apart, DefinitionHasSettings, Own, Stored, StoredAt, store

-----------------------------------------------------------------------------
LEMMA StepIsSound ==
  ASSUME Inv, NEW r \in Req, HandlerStep(r), ~Take(r)
  PROVE  Sound(r)
BY CheckDeployedStep, CompileStep, PutSettingsStep, PutAppStep, CheckBucketsStep, PutDraftStep,
   FindAppStep, CheckStateStep, ListAppsStep, DropSettingsStep, DropAppStep, FindDraftStep,
   CheckDraftStateStep, DropDraftStep, ListDraftsStep, ReadDraftStep, NotFoundStep, ValidateStep,
   CleanAppsStep, CleanDraftsStep, CleanSettingsStep DEF HandlerStep

LEMMA EveryStep ==
  ASSUME Inv, [Next]_vars
  PROVE  Inv' /\ \A q \in Req : Promise(q)
<1>1. ASSUME \A q \in Req : Active(h'[q]) \/ ~Active(h[q])
      PROVE  \A q \in Req : Promise(q)
  BY <1>1 DEF Promise, OkIsDone, Heals, EndsAlone
<1>2. CASE UNCHANGED vars
  <2>1. UNCHANGED <<store, h, failures, unset>> /\ sup' = sup
    BY <1>2 DEF vars, store
  <2> QED BY <1>1, <2>1, SupervisorKeepsInv DEF Inv, TypeOK
<1>3. ASSUME NEW r \in Req, HandlerStep(r), ~Take(r)
      PROVE  Inv' /\ \A q \in Req : Promise(q)
  <2>1. Sound(r)
    BY <1>3, StepIsSound
  <2>2. ASSUME NEW q \in Req
        PROVE  Promise(q)
    <3>1. CASE q = r
      BY <2>1, <3>1 DEF Sound
    <3>2. CASE q # r
      BY <2>1, <3>2 DEF Sound, Moved, Promise, OkIsDone, Heals, EndsAlone
    <3> QED BY <3>1, <3>2
  <2> QED BY <2>1, <2>2, SoundKeepsInv
<1>4. ASSUME NEW r \in Req, Take(r)
      PROVE  Inv' /\ \A q \in Req : Promise(q)
  BY <1>1, <1>4, TakeKeepsInv
<1>5. ASSUME NEW r \in Req, NEW op \in Ops, Submit(r, op)
      PROVE  Inv' /\ \A q \in Req : Promise(q)
  BY <1>1, <1>5, SubmitKeepsInv
<1>6. ASSUME NEW n \in Name, SupervisorStarts(n) \/ SupervisorBoots(n) \/ SupervisorStops(n)
      PROVE  Inv' /\ \A q \in Req : Promise(q)
  <2>1. /\ UNCHANGED <<store, h, failures, unset>>
        /\ sup' \in [Name -> {"undeployed", "starting", "deployed"}]
    BY <1>6 DEF SupervisorStarts, SupervisorBoots, SupervisorStops, Inv, TypeOK
  <2> QED BY <1>1, <2>1, SupervisorKeepsInv
<1> QED BY <1>2, <1>3, <1>4, <1>5, <1>6 DEF Next

LEMMA InvInit == Init => Inv
<1> SUFFICES ASSUME Init
             PROVE  Inv
  OBVIOUS
<1>1. \A r \in Req : h[r] = Idle
  BY DEF Init
<1>2. Idle.at = "idle" /\ Idle.op = "none" /\ ~Active(Idle)
  BY DEF Idle, Active
<1>3. TypeOK
  BY IdleTyped, FailuresAssumption DEF Init, TypeOK
<1>4. \A r \in Req : Form(h[r]) /\ Own(r) /\ Stored(r)
  BY <1>1, <1>2, IdleTyped DEF Form, Own, Stored
<1>5. Apart /\ DefinitionHasSettings
  BY <1>1, <1>2 DEF Apart, DefinitionHasSettings, Init
<1> QED BY <1>3, <1>4, <1>5 DEF Inv

(* The invariant, which says how far each handler has come and what that   *)
(* means for the store.                                                    *)
THEOREM InvariantHolds == Spec => []Inv
BY InvInit, EveryStep, PTL DEF Spec

(* Every variable of FunctionStore keeps its type.                         *)
THEOREM TypeCorrect == Spec => []TypeOK
<1>1. Inv => TypeOK
  BY DEF Inv
<1> QED BY <1>1, InvariantHolds, PTL

(* A definition has settings, but for deletes that are under way or failed *)
(* and writes that others overlapped.                                      *)
THEOREM DefinitionsHaveSettings == Spec => []DefinitionHasSettings
<1>1. Inv => DefinitionHasSettings
  BY DEF Inv
<1> QED BY <1>1, InvariantHolds, PTL

(* A handler that says ok has done all it was asked to.                    *)
THEOREM OkIsTrue == Spec => OkMeansDone
<1>1. Inv /\ [Next]_vars => [\A r \in Req : OkIsDone(r)]_vars
  BY EveryStep DEF Promise
<1> QED BY <1>1, InvariantHolds, PTL DEF Spec, OkMeansDone

(* A repeated DELETE removes what a failed one left.                       *)
THEOREM DeletesHeal == Spec => DeleteHeals
<1>1. Inv /\ [Next]_vars => [\A r \in Req : Heals(r)]_vars
  BY EveryStep DEF Promise
<1> QED BY <1>1, InvariantHolds, PTL DEF Spec, DeleteHeals
=============================================================================
