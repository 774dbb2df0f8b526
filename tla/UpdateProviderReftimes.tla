------------------------- MODULE UpdateProviderReftimes -------------------------
(* What a request to the update URL does to the list of reference times:    *)
(* LocationForecastUpdateHandler::get, UpdateProviderReftimes.cpp and       *)
(* ProviderReftimes.cpp, on what wci.browse answers                         *)
(* (transactor/ProviderRefTime.cpp).                                        *)
(*                                                                          *)
(* The list says which run of each model is served, from when on, and       *)
(* whether the model is disabled. A model is a provider and, if it has      *)
(* several grids, a placename; a request may name either. Updates run one   *)
(* at a time (the handler's mutex), but each asks the database several      *)
(* times, and runs arrive and are deleted in between. How the list reaches  *)
(* the forecast handlers is the NoteManager module's.                       *)
EXTENDS Integers, Sequences, FiniteSetsExt, Functions

CONSTANTS
  Models,       \* the models there are: <<provider, placename>>
  Providers,    \* the providers of the configured priority list, sorted by name
  RefTimes,     \* bound: reference times, from 1 on
  Recent,       \* those of the last 48 hours
  Versions,     \* bound: the versions a run may have
  Requests,     \* what clients ask: a record for each key, in the order of the keys
  MaxUpdates,   \* bound: update requests
  MaxDbChanges  \* bound: runs that arrive or are deleted

NULL == 0         \* no reference time: the latest
AnyVersion == -1  \* the dataversion of a request that asks for none
AnyPlace == 0     \* the placename of a request for a whole provider

\* What a request asks of one key.
Asks ==
  [key : STRING \X Nat, refTime : RefTimes \cup {NULL},
   dataversion : Versions \cup {AnyVersion}, disabled : BOOLEAN,
   reftimeUpdateRequest : BOOLEAN, disableEnableRequest : BOOLEAN,
   dataversionRequest : BOOLEAN]

ASSUME UpdateAssumption ==
  /\ RefTimes \subseteq Nat \ {NULL} /\ Recent \subseteq RefTimes
  /\ Versions \subseteq Nat
  /\ Providers \in Seq(STRING)
  /\ Models \subseteq STRING \X (Nat \ {AnyPlace})
  /\ Requests \subseteq Seq(Asks)

VARIABLES
  db,         \* the runs the database has of each model
  refTimes,   \* the note: model -> what is served of it
  update,     \* the update request under way
  answer,     \* what it is answered, once it is
  now,        \* the time, in update requests
  dbChanges,  \* how often the database has changed
  quiet       \* history: has it not changed during the last request?

vars == <<db, refTimes, update, answer, now, dbChanges, quiet>>

NoRefTimes == [model \in {} |-> NULL]
Idle == [pc |-> "idle"]

----------------------------------------------------------------------------
(* ProviderRefTimeList                                                      *)

\* The entries of some are written into a list.
Written(some, list) ==
  [model \in DOMAIN some \cup DOMAIN list |->
     IF model \in DOMAIN some THEN some[model] ELSE list[model]]

\* Does a key, with or without a placename, name the model?
Names(key, model) == key[1] = model[1] /\ key[2] \in {AnyPlace, model[2]}

Named(list, key) == {model \in DOMAIN list : Names(key, model)}

updateDisableStatus(list, key, disable) ==
  [model \in DOMAIN list |->
     IF Names(key, model) THEN [list[model] EXCEPT !.disabled = disable] ELSE list[model]]

updateDataversion(list, key, version) ==
  [model \in DOMAIN list |->
     IF Names(key, model) THEN [list[model] EXCEPT !.dataversion = version] ELSE list[model]]

\* disabled, dataversion: those of the first entry the key names, in the order
\* of the map, or the default.
FirstNamed(list, key) ==
  CHOOSE model \in Named(list, key) : \A other \in Named(list, key) : model[2] <= other[2]

disabled(list, key) ==
  Named(list, key) # {} /\ list[FirstNamed(list, key)].disabled

dataversion(list, key) ==
  IF Named(list, key) = {} THEN AnyVersion ELSE list[FirstNamed(list, key)].dataversion

----------------------------------------------------------------------------
(* The database                                                             *)

\* ProviderRefTime: the latest of the runs asked for of each model of a
\* provider, as an entry made now.
browse(provider, times, version) ==
  LET runs(model) == {run \in db[model] : /\ run.refTime \in times
                                          /\ version \in {AnyVersion, run.dataversion}}
  IN [model \in {m \in Models : m[1] = provider /\ runs(m) # {}} |->
        [refTime |-> Max({run.refTime : run \in runs(model)}), updatedTime |-> now,
         disabled |-> FALSE, dataversion |-> AnyVersion]]

Times(refTime) == IF refTime = NULL THEN RefTimes ELSE {refTime}

\* updateProviderRefTimes for one provider of the list: runs of the last 48
\* hours, and only if there is none, any.
existingOf(provider) ==
  IF browse(provider, Recent, AnyVersion) # NoRefTimes
  THEN browse(provider, Recent, AnyVersion)
  ELSE browse(provider, RefTimes, AnyVersion)

----------------------------------------------------------------------------
(* updateProviderRefTimes for what a request asks of one key                *)

\* A request that asks for no reference time changes the status or version of
\* entries first; it goes on only if that changed one and left it enabled.
statusUpdated(list, r) ==
  LET status == IF r.disableEnableRequest
                THEN updateDisableStatus(list, r.key, r.disabled) ELSE list
  IN IF r.reftimeUpdateRequest THEN list
     ELSE IF r.dataversionRequest THEN updateDataversion(status, r.key, r.dataversion)
     ELSE status

StopsThere(list, r) ==
  /\ ~r.reftimeUpdateRequest
  /\ statusUpdated(list, r) = list \/ disabled(statusUpdated(list, r), r.key)

Requested(entry, r) ==
  [entry EXCEPT !.dataversion = IF r.dataversionRequest THEN r.dataversion ELSE @,
                !.disabled = IF r.disableEnableRequest THEN r.disabled ELSE @]

\* An entry for a run it has keeps its updatedTime, another one keeps its
\* status; a model the key does not name is treated as a new one.
\* Mutant: a new run enables the model.
entryOfEnabled(list, r, model, found) ==
  IF model \in DOMAIN list /\ Names(r.key, model)
  THEN IF list[model].refTime = found.refTime
       THEN Requested(list[model], r)
       ELSE Requested(found, r)
  ELSE [found EXCEPT !.dataversion = r.dataversion, !.disabled = r.disabled]

\* Mutant: the entry is replaced whether it is for the same run or not.
entryOfAlwaysNew(list, r, model, found) ==
  IF model \in DOMAIN list /\ Names(r.key, model)
  THEN Requested([found EXCEPT !.disabled = list[model].disabled], r)
  ELSE [found EXCEPT !.dataversion = r.dataversion, !.disabled = r.disabled]

entryOf(list, r, model, found) ==
  IF model \in DOMAIN list /\ Names(r.key, model)
  THEN IF list[model].refTime = found.refTime
       THEN Requested(list[model], r)
       ELSE Requested([found EXCEPT !.disabled = list[model].disabled], r)
  ELSE [found EXCEPT !.dataversion = r.dataversion, !.disabled = r.disabled]

\* Mutant: entries are added, never changed.
updatedListAdds(list, r, found) ==
  Written(list, [model \in DOMAIN found |-> entryOf(list, r, model, found[model])])

updatedList(list, r, found) ==
  Written([model \in DOMAIN found |-> entryOf(list, r, model, found[model])], list)

----------------------------------------------------------------------------
(* The database changes                                                     *)

DbChanges ==
  /\ dbChanges < MaxDbChanges
  /\ dbChanges' = dbChanges + 1
  /\ quiet' = FALSE
  /\ UNCHANGED <<refTimes, update, answer, now>>

NewRun(model) ==
  /\ \E run \in [refTime : RefTimes, dataversion : Versions] \ db[model] :
       db' = [db EXCEPT ![model] = @ \cup {run}]
  /\ DbChanges

DeleteRun(model) ==
  /\ \E run \in db[model] : db' = [db EXCEPT ![model] = @ \ {run}]
  /\ DbChanges

----------------------------------------------------------------------------
(* LocationForecastUpdateHandler::get                                       *)

Init ==
  /\ db \in [Models -> {{}, {[refTime |-> Min(RefTimes), dataversion |-> Min(Versions)]}}]
  /\ refTimes = NoRefTimes
  /\ update = Idle
  /\ answer = "none"
  /\ now = 0
  /\ dbChanges = 0
  /\ quiet = TRUE

Answer(status) == answer' = status /\ update' = Idle

\* The priority list is resolved anew for every request: it has the configured
\* providers whose look-up gives data, in their order. A look-up that fails is
\* passed over, and without a connection the list is empty.
Precedes(a, b) ==
  \E i, j \in DOMAIN Providers : i < j /\ Providers[i] = a /\ Providers[j] = b

providerPrioritySetPlacename ==
  {list \in UNION {[1..n -> Range(Providers)] : n \in 0..Len(Providers)} :
     /\ \A i, j \in DOMAIN list : i < j => Precedes(list[i], list[j])
     /\ \A i \in DOMAIN list : browse(list[i], RefTimes, AnyVersion) # NoRefTimes}

\* checkProviders: every key must name a provider of the priority list.
Known(request, providers) ==
  \A i \in DOMAIN request : \E j \in DOMAIN providers : providers[j] = request[i].key[1]

\* A request without keys asks for the latest run of every provider, with the
\* version and the status of its first entry.
checkProviders(request, providers) ==
  IF request # <<>> THEN request
  ELSE [i \in DOMAIN providers |->
          LET key == <<providers[i], AnyPlace>>
          IN [key |-> key, refTime |-> NULL, dataversion |-> dataversion(refTimes, key),
              disabled |-> disabled(refTimes, key), reftimeUpdateRequest |-> TRUE,
              disableEnableRequest |-> FALSE, dataversionRequest |-> FALSE]]

get(request) ==
  /\ update = Idle
  /\ now < MaxUpdates
  /\ now' = now + 1
  /\ quiet' = TRUE
  /\ \E providers \in providerPrioritySetPlacename :
       IF Known(request, providers)
       THEN /\ update' = [pc |-> "existing", request |-> checkProviders(request, providers),
                          providers |-> providers, newRefTime |-> refTimes,
                          existing |-> NoRefTimes, i |-> 1]
            /\ answer' = "none"
       ELSE Answer("INVALID_QUERY")
  /\ UNCHANGED <<db, refTimes, dbChanges>>

\* The query "debug" publishes the list as it is.
getDebug ==
  /\ update = Idle
  /\ now < MaxUpdates
  /\ now' = now + 1
  /\ quiet' = TRUE
  /\ Answer("Updated")
  /\ UNCHANGED <<db, refTimes, dbChanges>>

\* No priority list in the notes, no connection, or a query that fails: nothing
\* is published. A failure during the update proper is reported as missing data.
dbError ==
  /\ update # Idle
  /\ Answer(IF update.pc = "update" THEN "NO_DATA" ELSE "INTERNAL_ERROR")
  /\ UNCHANGED <<db, refTimes, now, dbChanges, quiet>>

\* The models that have data, one provider after the other.
existingProviders ==
  /\ update.pc = "existing"
  /\ update.i <= Len(update.providers)
  /\ update' = [update EXCEPT !.existing = Written(existingOf(update.providers[update.i]), @),
                              !.i = @ + 1]
  /\ UNCHANGED <<db, refTimes, answer, now, dbChanges, quiet>>

\* With no data at all the list stays as it is; but a priority list without
\* providers counts as success, with no model that has data.
existingProvidersEnd ==
  /\ update.pc = "existing"
  /\ update.i > Len(update.providers)
  /\ IF update.providers # <<>> /\ update.existing = NoRefTimes
     THEN Answer("NoNewDataRefTime")
     ELSE /\ update' = [update EXCEPT !.pc = "update", !.i = 1]
          /\ UNCHANGED answer
  /\ UNCHANGED <<db, refTimes, now, dbChanges, quiet>>

\* The next key: its status, and what the database has for it, which must be
\* something.
updateProviderRefTimes ==
  /\ update.pc = "update"
  /\ update.i <= Len(update.request)
  /\ LET r == update.request[update.i]
         list == statusUpdated(update.newRefTime, r)
         found == browse(r.key[1], Times(r.refTime), r.dataversion)
     IN IF StopsThere(update.newRefTime, r)
        THEN /\ update' = [update EXCEPT !.newRefTime = list, !.i = @ + 1]
             /\ UNCHANGED answer
        ELSE IF found = NoRefTimes THEN Answer("NO_DATA")
        ELSE /\ update' = [update EXCEPT !.newRefTime = updatedList(list, r, found),
                                         !.i = @ + 1]
             /\ UNCHANGED answer
  /\ UNCHANGED <<db, refTimes, now, dbChanges, quiet>>

\* updateStatus: the same models, runs, versions and status?
updateStatus(old, new) ==
  IF /\ DOMAIN old = DOMAIN new
     /\ \A m \in DOMAIN old : [old[m] EXCEPT !.updatedTime = 0] = [new[m] EXCEPT !.updatedTime = 0]
  THEN "NoNewDataRefTime" ELSE "Updated"

checkAgainstExistingProviders(list, existing) ==
  Restrict(list, DOMAIN list \cap DOMAIN existing)

\* Models without data go, and the list is published.
setNote ==
  /\ update.pc = "update"
  /\ update.i > Len(update.request)
  /\ LET list == checkAgainstExistingProviders(update.newRefTime, update.existing)
     IN refTimes' = list /\ Answer(updateStatus(refTimes, list))
  /\ UNCHANGED <<db, now, dbChanges, quiet>>

Next ==
  \/ \E model \in Models : NewRun(model) \/ DeleteRun(model)
  \/ \E request \in Requests : get(request)
  \/ getDebug
  \/ dbError
  \/ existingProviders
  \/ existingProvidersEnd
  \/ updateProviderRefTimes
  \/ setNote

Spec == Init /\ [][Next]_vars

----------------------------------------------------------------------------
(* What an update may do                                                    *)

\* What the update under way was asked.
Asked == IF update = Idle THEN <<>> ELSE update.request

\* A key with the placename of another grid of the same provider: the list's
\* entry for this grid is then overwritten as if it were new.
NamesSibling(model) ==
  \E i \in DOMAIN Asked :
     LET key == Asked[i].key
     IN key[1] = model[1] /\ key[2] \notin {AnyPlace, model[2]}

\* Keys of one request may name the same model, one its provider and one its
\* placename.
NamedOnce(model) ==
  \A i, j \in DOMAIN Asked : Names(Asked[i].key, model) /\ Names(Asked[j].key, model) => i = j

Stays(model) == model \in DOMAIN refTimes /\ model \in DOMAIN refTimes'

\* A model that stays in the list keeps its status over new runs, versions and
\* failures (updateProviderRefTimes: "refTimeIt->second.disabled =
\* old.disabled") until a request that names it says otherwise, or one with a
\* key for another grid of its provider, which gives it the status of that key
\* ("We just add it to the refTimes"). A model that comes into the list, back
\* into it after its data or the look-up of its provider failed too, has the
\* status of a key that brings it: whether it was disabled before is forgotten.
StatusOnlyOnRequest ==
  [][\A model \in DOMAIN refTimes' :
       (Stays(model) => refTimes[model].disabled # refTimes'[model].disabled)
       => \E i \in DOMAIN Asked :
             LET r == Asked[i]
             IN /\ r.key[1] = model[1]
                /\ r.disabled = refTimes'[model].disabled
                /\ Stays(model) /\ Names(r.key, model) => r.disableEnableRequest]_vars

\* "Do not update the reftime if we allready have a record for this reftime.
\* This is neccesary since the updatedTime is used in the meta data returned"
\* (UpdateProviderReftimes.cpp:142-145): the time a run has been served from
\* does not change while the run does not. (A request with two keys for the
\* model may take it to another run and back, and the time is then new.)
ServedSince ==
  [][\A model \in Models :
       /\ Stays(model) /\ ~NamesSibling(model) /\ NamedOnce(model)
       /\ refTimes[model].refTime = refTimes'[model].refTime
       => refTimes[model].updatedTime = refTimes'[model].updatedTime]_vars

\* The models that have no run of the last 48 hours while another grid of their
\* provider has one: they do not count as existing.
Outdated(model) ==
  LET recent == browse(model[1], Recent, AnyVersion)
  IN recent # NoRefTimes /\ model \notin DOMAIN recent

\* What a request asks for is what the list says once it is published, unless
\* the database changed during the request: for each key that asks for a
\* reference time and is the last about its provider, every model it names that
\* the database has is listed with the run found for it. The one exception is an
\* outdated model: even what was just found for it is filtered away
\* (checkAgainstExistingProviders). And nothing else leaves the list than the
\* outdated models, those without data ("It my happend that we dont have data
\* for some models, ie they are deleted", LocationForecastUpdateHandler.cpp:644)
\* and those of a provider whose look-up gave nothing.
RequestTakesEffect ==
  [][setNote /\ quiet =>
       /\ \A i \in DOMAIN Asked :
            LET r == Asked[i]
                found == browse(r.key[1], Times(r.refTime), r.dataversion)
            IN /\ r.reftimeUpdateRequest
               /\ \A j \in DOMAIN Asked : j > i => Asked[j].key[1] # r.key[1]
               => \A model \in DOMAIN found :
                     Names(r.key, model) =>
                       IF Outdated(model) THEN model \notin DOMAIN refTimes'
                       ELSE /\ model \in DOMAIN refTimes'
                            /\ refTimes'[model].refTime = found[model].refTime
       /\ \A model \in DOMAIN refTimes \ DOMAIN refTimes' :
            \/ Outdated(model)
            \/ model \notin DOMAIN browse(model[1], RefTimes, AnyVersion)
            \/ \A i \in DOMAIN update.providers : update.providers[i] # model[1]]_vars
================================================================================
