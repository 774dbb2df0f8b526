---------------------- MODULE UpdateProviderReftimesProofs ----------------------
(***************************************************************************)
(* Proofs about UpdateProviderReftimes, for any models, providers and      *)
(* requests, whatever the database does in between and whichever query     *)
(* fails: what an update may do to the entry of a model, and what it does  *)
(* for a key that asks for a reference time.                               *)
(***************************************************************************)
EXTENDS UpdateProviderReftimes, TLAPS

----------------------------------------------------------------------------
(* Lists and their entries                                                  *)

\* The shape of an entry, and of a list.
IsEntry(e) ==
  \E r, u, d, v : e = [refTime |-> r, updatedTime |-> u, disabled |-> d, dataversion |-> v]

IsList(list) == \A model \in DOMAIN list : IsEntry(list[model])

\* What changing one field of an entry leaves alone.
LEMMA EntryChange ==
  ASSUME NEW e, IsEntry(e), NEW x
  PROVE  /\ IsEntry([e EXCEPT !.disabled = x])
         /\ [e EXCEPT !.disabled = x].disabled = x
         /\ [e EXCEPT !.disabled = x].refTime = e.refTime
         /\ [e EXCEPT !.disabled = x].updatedTime = e.updatedTime
         /\ IsEntry([e EXCEPT !.dataversion = x])
         /\ [e EXCEPT !.dataversion = x].disabled = e.disabled
         /\ [e EXCEPT !.dataversion = x].refTime = e.refTime
         /\ [e EXCEPT !.dataversion = x].updatedTime = e.updatedTime
<1>1. PICK r, u, d, v : e = [refTime |-> r, updatedTime |-> u, disabled |-> d, dataversion |-> v]
  BY DEF IsEntry
<1>2. /\ [e EXCEPT !.disabled = x] =
           [refTime |-> r, updatedTime |-> u, disabled |-> x, dataversion |-> v]
      /\ [e EXCEPT !.dataversion = x] =
           [refTime |-> r, updatedTime |-> u, disabled |-> d, dataversion |-> x]
  BY <1>1
<1> QED BY <1>1, <1>2, ZenonT(60) DEF IsEntry

\* The entry of a model has the same run, served since the same time.
SameRun(old, new) == new.refTime = old.refTime /\ new.updatedTime = old.updatedTime

\* What a request asks of an entry it has.
LEMMA RequestedIs ==
  ASSUME NEW e, IsEntry(e), NEW r
  PROVE  /\ IsEntry(Requested(e, r))
         /\ SameRun(e, Requested(e, r))
         /\ r.disableEnableRequest => Requested(e, r).disabled = r.disabled
         /\ ~r.disableEnableRequest => Requested(e, r).disabled = e.disabled
<1> DEFINE v == IF r.dataversionRequest THEN r.dataversion ELSE e.dataversion
           d == IF r.disableEnableRequest THEN r.disabled ELSE e.disabled
<1>1. PICK t, u, c, w : e = [refTime |-> t, updatedTime |-> u, disabled |-> c, dataversion |-> w]
  BY DEF IsEntry
<1>2. Requested(e, r) = [e EXCEPT !.dataversion = v, !.disabled = d]
  BY <1>1 DEF Requested
<1>3. r.disableEnableRequest => d = r.disabled
  OBVIOUS
<1>4. ~r.disableEnableRequest => d = e.disabled
  OBVIOUS
<1> HIDE DEF v, d
<1>5. Requested(e, r) = [refTime |-> t, updatedTime |-> u, disabled |-> d, dataversion |-> v]
  BY <1>1, <1>2
<1>6. IsEntry(Requested(e, r))
  BY <1>5 DEF IsEntry
<1> QED BY <1>1, <1>3, <1>4, <1>5, <1>6 DEF SameRun

\* What the database answers.
LEMMA BrowseIs ==
  ASSUME NEW provider, NEW times, NEW version
  PROVE  /\ IsList(browse(provider, times, version))
         /\ \A model \in DOMAIN browse(provider, times, version) :
              model \in Models /\ model[1] = provider
<1> DEFINE runs(model) == {run \in db[model] : /\ run.refTime \in times
                                               /\ version \in {AnyVersion, run.dataversion}}
           S == {m \in Models : m[1] = provider /\ runs(m) # {}}
           f == [model \in S |->
                   [refTime |-> Max({run.refTime : run \in runs(model)}), updatedTime |-> now,
                    disabled |-> FALSE, dataversion |-> AnyVersion]]
<1>1. browse(provider, times, version) = f
  BY DEF browse
<1>2. \A model \in DOMAIN f : model \in Models /\ model[1] = provider
  OBVIOUS
<1>3. \A model \in DOMAIN f : IsEntry(f[model])
  BY DEF IsEntry
<1> QED BY <1>1, <1>2, <1>3 DEF IsList

----------------------------------------------------------------------------
(* What one key of a request does to the list                               *)

\* An entry after a key: its status is the old one or the requested one, and a
\* run it had is served since the same time.
Follows(r, old, new) ==
  /\ new.disabled = old.disabled \/ (r.disableEnableRequest /\ new.disabled = r.disabled)
  /\ new.refTime = old.refTime => new.updatedTime = old.updatedTime

\* The status and the version.
LEMMA StatusIs ==
  ASSUME NEW list, IsList(list), NEW r
  PROVE  LET new == statusUpdated(list, r)
         IN  /\ IsList(new) /\ DOMAIN new = DOMAIN list
             /\ \A model \in DOMAIN list :
                  /\ SameRun(list[model], new[model])
                  /\ Follows(r, list[model], new[model])
                  /\ ~Names(r.key, model) => new[model] = list[model]
<1> DEFINE a == updateDisableStatus(list, r.key, r.disabled)
           b == IF r.disableEnableRequest THEN a ELSE list
           c == updateDataversion(b, r.key, r.dataversion)
           Good(new) == /\ IsList(new) /\ DOMAIN new = DOMAIN list
                        /\ \A model \in DOMAIN list :
                             /\ SameRun(list[model], new[model])
                             /\ Follows(r, list[model], new[model])
                             /\ ~Names(r.key, model) => new[model] = list[model]
<1>1. Good(list)
  BY DEF SameRun, Follows
<1>2. r.disableEnableRequest => Good(a)
  <2> SUFFICES ASSUME r.disableEnableRequest PROVE Good(a)
    OBVIOUS
  <2>1. DOMAIN a = DOMAIN list /\ \A model \in DOMAIN list :
          a[model] = IF Names(r.key, model) THEN [list[model] EXCEPT !.disabled = r.disabled]
                     ELSE list[model]
    BY DEF updateDisableStatus
  <2> HIDE DEF a
  <2>2. ASSUME NEW model \in DOMAIN list
        PROVE  /\ IsEntry(a[model]) /\ SameRun(list[model], a[model])
               /\ Follows(r, list[model], a[model])
               /\ ~Names(r.key, model) => a[model] = list[model]
    <3>1. PICK e : e = list[model] /\ IsEntry(e)
      BY DEF IsList
    <3>2. PICK x : x = r.disabled
      OBVIOUS
    <3>3. CASE Names(r.key, model)
      <4>1. a[model] = [e EXCEPT !.disabled = x]
        BY <2>1, <3>1, <3>2, <3>3
      <4>2. /\ IsEntry([e EXCEPT !.disabled = x])
            /\ [e EXCEPT !.disabled = x].disabled = x
            /\ [e EXCEPT !.disabled = x].refTime = e.refTime
            /\ [e EXCEPT !.disabled = x].updatedTime = e.updatedTime
        <5>1. IsEntry(e)
          BY <3>1
        <5> QED BY <5>1, EntryChange, ZenonT(60)
      <4> QED BY <3>1, <3>2, <3>3, <4>1, <4>2 DEF SameRun, Follows
    <3>4. CASE ~Names(r.key, model)
      BY <2>1, <3>1, <3>4 DEF SameRun, Follows
    <3> QED BY <3>3, <3>4
  <2> QED BY <2>1, <2>2 DEF IsList
<1>3. Good(b)
  BY <1>1, <1>2, Zenon
<1> HIDE DEF b
<1>4. Good(c)
  <2>1. DOMAIN c = DOMAIN b /\ \A model \in DOMAIN b :
          c[model] = IF Names(r.key, model) THEN [b[model] EXCEPT !.dataversion = r.dataversion]
                     ELSE b[model]
    BY DEF updateDataversion
  <2> HIDE DEF c
  <2>2. ASSUME NEW model \in DOMAIN list
        PROVE  /\ IsEntry(c[model]) /\ SameRun(list[model], c[model])
               /\ Follows(r, list[model], c[model])
               /\ ~Names(r.key, model) => c[model] = list[model]
    <3>1. PICK e : e = b[model] /\ IsEntry(e)
      BY <1>3 DEF IsList
    <3>2. PICK x : x = r.dataversion
      OBVIOUS
    <3>3. CASE Names(r.key, model)
      <4>1. c[model] = [e EXCEPT !.dataversion = x]
        BY <1>3, <2>1, <3>1, <3>2, <3>3
      <4>2. IsEntry(c[model]) /\ SameRun(e, c[model]) /\ c[model].disabled = e.disabled
        <5>1. IsEntry(e)
          BY <3>1
        <5>2. /\ IsEntry([e EXCEPT !.dataversion = x])
              /\ [e EXCEPT !.dataversion = x].disabled = e.disabled
              /\ [e EXCEPT !.dataversion = x].refTime = e.refTime
              /\ [e EXCEPT !.dataversion = x].updatedTime = e.updatedTime
          BY <5>1, EntryChange
        <5> QED BY <4>1, <5>2 DEF SameRun
      <4> QED BY <1>3, <3>1, <3>3, <4>2 DEF SameRun, Follows
    <3>4. CASE ~Names(r.key, model)
      BY <1>3, <2>1, <3>1, <3>4
    <3> QED BY <3>3, <3>4
  <2> QED BY <1>3, <2>1, <2>2 DEF IsList
<1>5. statusUpdated(list, r) \in {list, b, c}
  BY DEF statusUpdated, b
<1> HIDE DEF Good
<1>6. Good(statusUpdated(list, r))
  BY <1>1, <1>3, <1>4, <1>5
<1> QED BY <1>6 DEF Good

\* The entry a result of the database becomes.
LEMMA EntryOfIs ==
  ASSUME NEW list, IsList(list), NEW r, NEW model, NEW found, IsEntry(found)
  PROVE  LET new == entryOf(list, r, model, found)
         IN  /\ IsEntry(new) /\ new.refTime = found.refTime
             /\ model \in DOMAIN list /\ Names(r.key, model) => Follows(r, list[model], new)
             /\ ~(model \in DOMAIN list /\ Names(r.key, model)) => new.disabled = r.disabled
<1>1. CASE ~(model \in DOMAIN list /\ Names(r.key, model))
  <2>1. PICK t, u, c, w : found = [refTime |-> t, updatedTime |-> u, disabled |-> c, dataversion |-> w]
    BY DEF IsEntry
  <2>2. entryOf(list, r, model, found) =
          [refTime |-> t, updatedTime |-> u, disabled |-> r.disabled, dataversion |-> r.dataversion]
    BY <1>1, <2>1 DEF entryOf
  <2>3. IsEntry(entryOf(list, r, model, found))
    BY <2>2 DEF IsEntry
  <2> QED BY <1>1, <2>1, <2>2, <2>3
<1>2. CASE model \in DOMAIN list /\ Names(r.key, model) /\ list[model].refTime = found.refTime
  <2>1. PICK e : e = list[model] /\ IsEntry(e)
    BY <1>2 DEF IsList
  <2>2. entryOf(list, r, model, found) = Requested(e, r)
    BY <1>2, <2>1 DEF entryOf
  <2>3. PICK new : new = entryOf(list, r, model, found)
    OBVIOUS
  <2>4. /\ IsEntry(new) /\ SameRun(e, new)
        /\ new.disabled = e.disabled \/ (r.disableEnableRequest /\ new.disabled = r.disabled)
    <3>1. IsEntry(e)
      BY <2>1
    <3>2. /\ IsEntry(Requested(e, r)) /\ SameRun(e, Requested(e, r))
          /\ r.disableEnableRequest => Requested(e, r).disabled = r.disabled
          /\ ~r.disableEnableRequest => Requested(e, r).disabled = e.disabled
      BY <3>1, RequestedIs, Zenon
    <3> QED BY <2>2, <2>3, <3>2
  <2>5. new.refTime = found.refTime /\ Follows(r, list[model], new)
    BY <1>2, <2>1, <2>4 DEF SameRun, Follows
  <2> QED BY <1>2, <2>3, <2>4, <2>5
<1>3. CASE model \in DOMAIN list /\ Names(r.key, model) /\ list[model].refTime # found.refTime
  <2>1. PICK d : d = list[model].disabled
    OBVIOUS
  <2>2. PICK e : e = [found EXCEPT !.disabled = d]
    OBVIOUS
  <2>3. IsEntry(e) /\ e.disabled = d /\ e.refTime = found.refTime
    BY <2>2, EntryChange, ZenonT(60)
  <2>4. entryOf(list, r, model, found) = Requested(e, r)
    BY <1>3, <2>1, <2>2 DEF entryOf
  <2>5. PICK new : new = entryOf(list, r, model, found)
    OBVIOUS
  <2>6. /\ IsEntry(new) /\ SameRun(e, new)
        /\ new.disabled = e.disabled \/ (r.disableEnableRequest /\ new.disabled = r.disabled)
    <3>1. IsEntry(e)
      BY <2>3
    <3>2. /\ IsEntry(Requested(e, r)) /\ SameRun(e, Requested(e, r))
          /\ r.disableEnableRequest => Requested(e, r).disabled = r.disabled
          /\ ~r.disableEnableRequest => Requested(e, r).disabled = e.disabled
      BY <3>1, RequestedIs, Zenon
    <3> QED BY <2>4, <2>5, <3>2
  <2>7. new.refTime = found.refTime /\ Follows(r, list[model], new)
    BY <1>3, <2>1, <2>3, <2>6 DEF SameRun, Follows
  <2> QED BY <1>3, <2>5, <2>6, <2>7
<1> QED BY <1>1, <1>2, <1>3

\* All results of the database for a key are written into the list.
Adds(list, r, found, new) ==
  /\ IsList(new) /\ DOMAIN new = DOMAIN list \cup DOMAIN found
  /\ \A model \in DOMAIN found : new[model].refTime = found[model].refTime
  /\ \A model \in DOMAIN list \ DOMAIN found : new[model] = list[model]
  /\ \A model \in DOMAIN list \cap DOMAIN found :
       Names(r.key, model) => Follows(r, list[model], new[model])
  /\ \A model \in DOMAIN found :
       ~(model \in DOMAIN list /\ Names(r.key, model)) => new[model].disabled = r.disabled

\* updatedList does.
LEMMA UpdatedListIs ==
  ASSUME NEW list, IsList(list), NEW r, NEW found, IsList(found)
  PROVE  Adds(list, r, found, updatedList(list, r, found))
<1> DEFINE new == updatedList(list, r, found)
<1>1. /\ DOMAIN new = DOMAIN list \cup DOMAIN found
      /\ \A model \in DOMAIN found : new[model] = entryOf(list, r, model, found[model])
      /\ \A model \in DOMAIN list \ DOMAIN found : new[model] = list[model]
  BY DEF updatedList, Written
<1> HIDE DEF new
<1>2. ASSUME NEW model \in DOMAIN found
      PROVE  /\ IsEntry(new[model]) /\ new[model].refTime = found[model].refTime
             /\ model \in DOMAIN list /\ Names(r.key, model) => Follows(r, list[model], new[model])
             /\ ~(model \in DOMAIN list /\ Names(r.key, model)) => new[model].disabled = r.disabled
  <2>1. PICK e : e = found[model] /\ IsEntry(e)
    BY DEF IsList
  <2> QED BY <1>1, <2>1, EntryOfIs
<1>3. IsList(new)
  BY <1>1, <1>2 DEF IsList
<1>4. Adds(list, r, found, new)
  BY <1>1, <1>2, <1>3 DEF Adds
<1> QED BY <1>4 DEF new

\* What the database has for a key.
FoundFor(r) == browse(r.key[1], Times(r.refTime), r.dataversion)

\* The status a key leaves a model with: the one it has in the list, or the one
\* of the key, which is about its provider.
StatusOf(r, list, model, entry) ==
  \/ model \in DOMAIN list /\ entry.disabled = list[model].disabled
  \/ /\ r.key[1] = model[1] /\ entry.disabled = r.disabled
     /\ model \in DOMAIN list /\ Names(r.key, model) => r.disableEnableRequest

\* What the update proper does for one key: entries of other providers stay,
\* those the key names follow it, and the runs found for it are listed.
KeyDone(list, new, r) ==
  /\ IsList(new) /\ DOMAIN list \subseteq DOMAIN new
  /\ \A model \in DOMAIN list :
       /\ r.key[1] # model[1] => new[model] = list[model]
       /\ Names(r.key, model) => Follows(r, list[model], new[model])
  /\ \A model \in DOMAIN new : StatusOf(r, list, model, new[model])
  /\ r.reftimeUpdateRequest =>
       \A model \in DOMAIN FoundFor(r) :
         model \in DOMAIN new /\ new[model].refTime = FoundFor(r)[model].refTime

\* It does so whether it stops at the status or asks the database.
LEMMA KeyIsDone ==
  ASSUME NEW list, IsList(list), NEW r
  PROVE  /\ StopsThere(list, r) => KeyDone(list, statusUpdated(list, r), r)
         /\ KeyDone(list, updatedList(statusUpdated(list, r), r, FoundFor(r)), r)
<1>1. PICK status : status = statusUpdated(list, r)
  OBVIOUS
<1>2. /\ IsList(status) /\ DOMAIN status = DOMAIN list
      /\ \A model \in DOMAIN list :
           /\ SameRun(list[model], status[model])
           /\ Follows(r, list[model], status[model])
           /\ ~Names(r.key, model) => status[model] = list[model]
  BY <1>1, StatusIs
<1>3. \A model : r.key[1] # model[1] => ~Names(r.key, model)
  BY DEF Names
<1>a. \A model \in DOMAIN status : StatusOf(r, list, model, status[model])
  BY <1>2, <1>3 DEF StatusOf, Follows
<1>4. StopsThere(list, r) => KeyDone(list, status, r)
  BY <1>2, <1>3, <1>a DEF StopsThere, KeyDone
<1>5. PICK found : found = FoundFor(r)
  OBVIOUS
<1>6. IsList(found) /\ \A model \in DOMAIN found : model[1] = r.key[1]
  BY <1>5, BrowseIs DEF FoundFor
<1>7. PICK new : new = updatedList(status, r, found)
  OBVIOUS
<1>8. /\ IsList(new) /\ DOMAIN new = DOMAIN status \cup DOMAIN found
      /\ \A model \in DOMAIN found : new[model].refTime = found[model].refTime
      /\ \A model \in DOMAIN status \ DOMAIN found : new[model] = status[model]
      /\ \A model \in DOMAIN status \cap DOMAIN found :
           Names(r.key, model) => Follows(r, status[model], new[model])
      /\ \A model \in DOMAIN found :
           ~(model \in DOMAIN status /\ Names(r.key, model)) => new[model].disabled = r.disabled
  <2>1. IsList(status) /\ IsList(found)
    BY <1>2, <1>6
  <2>2. Adds(status, r, found, new)
    BY <1>7, <2>1, UpdatedListIs, Zenon
  <2> QED BY <2>2 DEF Adds
<1>9. ASSUME NEW model \in DOMAIN list
      PROVE  /\ r.key[1] # model[1] => new[model] = list[model]
             /\ Names(r.key, model) => Follows(r, list[model], new[model])
  <2>1. CASE model \notin DOMAIN found
    BY <1>2, <1>3, <1>8, <2>1
  <2>2. CASE model \in DOMAIN found
    BY <1>2, <1>6, <1>8, <2>2 DEF SameRun, Follows
  <2> QED BY <2>1, <2>2
<1>b. ASSUME NEW model \in DOMAIN new PROVE StatusOf(r, list, model, new[model])
  <2>1. CASE model \notin DOMAIN found
    BY <1>2, <1>8, <1>a, <2>1
  <2>2. CASE model \in DOMAIN found /\ model \in DOMAIN list /\ Names(r.key, model)
    BY <1>6, <1>9, <2>2 DEF StatusOf, Follows
  <2>3. CASE model \in DOMAIN found /\ ~(model \in DOMAIN list /\ Names(r.key, model))
    BY <1>2, <1>6, <1>8, <2>3 DEF StatusOf
  <2> QED BY <2>1, <2>2, <2>3
<1>10. KeyDone(list, new, r)
  BY <1>2, <1>5, <1>8, <1>9, <1>b DEF KeyDone
<1> QED BY <1>1, <1>4, <1>5, <1>7, <1>10

----------------------------------------------------------------------------
(* The inductive invariant                                                  *)

\* The keys of the request that the update proper is done with.
Done == IF update.pc = "update" THEN 1..(update.i - 1) ELSE {}

\* The fields of an update under way.
IsUpdate(u) ==
  \E pc, q, g, l, x, i : u = [pc |-> pc, request |-> q, providers |-> g, newRefTime |-> l, existing |-> x, i |-> i]

\* The shape of an update under way; its list has every model of the note.
Underway ==
  /\ IsUpdate(update)
  /\ update.pc \in {"existing", "update"}
  /\ Len(update.request) \in Nat /\ DOMAIN update.request = 1..Len(update.request)
  /\ Len(update.providers) \in Nat /\ DOMAIN update.providers = 1..Len(update.providers)
  /\ update.i \in Nat \ {0}
  /\ update.pc = "update" => update.i <= Len(update.request) + 1
  /\ update.pc = "existing" => update.newRefTime = refTimes
  /\ IsList(update.newRefTime)
  /\ DOMAIN refTimes \subseteq DOMAIN update.newRefTime

\* A model of the new list has the status it has in the note, or that of a key
\* so far.
StatusOK(model) ==
  LET new == update.newRefTime[model]
      r(j) == update.request[j]
  IN \/ model \in DOMAIN refTimes /\ new.disabled = refTimes[model].disabled
     \/ \E j \in Done :
          /\ r(j).key[1] = model[1] /\ r(j).disabled = new.disabled
          /\ model \in DOMAIN refTimes /\ Names(r(j).key, model) => r(j).disableEnableRequest

\* The keys so far have changed the time a run is served from only with the run.
\* As long as none of them names the model, its run is the one in the note.
ModelOK(model) ==
  LET old == refTimes[model]
      new == update.newRefTime[model]
      r(j) == update.request[j]
  IN ~NamesSibling(model) =>
       /\ (\A j \in Done : ~Names(r(j).key, model)) => SameRun(old, new)
       /\ NamedOnce(model) /\ new.refTime = old.refTime => new.updatedTime = old.updatedTime

\* In a quiet update the runs the database has for a key are listed, until a
\* later key is about the same provider.
Listed ==
  quiet =>
    \A j \in Done :
      LET r == update.request[j]
      IN /\ r.reftimeUpdateRequest
         /\ \A k \in Done : k > j => update.request[k].key[1] # r.key[1]
         => \A model \in DOMAIN FoundFor(r) :
              /\ model \in DOMAIN update.newRefTime
              /\ update.newRefTime[model].refTime = FoundFor(r)[model].refTime

\* The inductive invariant.
IInv ==
  /\ IsList(refTimes)
  /\ update # Idle => /\ Underway
                      /\ \A model \in DOMAIN refTimes : ModelOK(model)
                      /\ \A model \in DOMAIN update.newRefTime : StatusOK(model)
                      /\ Listed

\* The answer to a query for the same key, nothing having changed.
LEMMA SameFound ==
  ASSUME UNCHANGED <<db, now>>, NEW r
  PROVE  FoundFor(r)' = FoundFor(r)
BY DEF FoundFor, browse

\* An update request after a step, field by field.
LEMMA FieldsAre ==
  ASSUME NEW pc, NEW q, NEW g, NEW l, NEW x, NEW i,
         update' = [pc |-> pc, request |-> q, providers |-> g, newRefTime |-> l, existing |-> x, i |-> i]
  PROVE  /\ update'.pc = pc /\ update'.request = q /\ update'.newRefTime = l /\ update'.i = i
         /\ update'.providers = g /\ update'.existing = x
         /\ IsUpdate(update')
<1>1. PICK u : u = update'
  OBVIOUS
<1>2. u = [pc |-> pc, request |-> q, providers |-> g, newRefTime |-> l, existing |-> x, i |-> i]
  BY <1>1
<1>3. IsUpdate(u)
  BY <1>2, Zenon DEF IsUpdate
<1>4. /\ u.pc = pc /\ u.request = q /\ u.newRefTime = l /\ u.i = i
      /\ u.providers = g /\ u.existing = x
  BY <1>2, Zenon
<1> QED BY <1>1, <1>3, <1>4, Zenon

\* An update request after a step is under way if its fields say so.
LEMMA UnderwayIs ==
  ASSUME NEW pc \in {"existing", "update"}, NEW q, NEW g, NEW l, NEW x, NEW i \in Nat \ {0},
         update' = [pc |-> pc, request |-> q, providers |-> g, newRefTime |-> l, existing |-> x, i |-> i],
         Len(q) \in Nat, DOMAIN q = 1..Len(q), Len(g) \in Nat, DOMAIN g = 1..Len(g),
         pc = "update" => i <= Len(q) + 1,
         pc = "existing" => l = refTimes',
         IsList(l), DOMAIN refTimes' \subseteq DOMAIN l
  PROVE  Underway'
<1>1. /\ update'.pc = pc /\ update'.request = q /\ update'.newRefTime = l /\ update'.i = i
      /\ update'.providers = g /\ IsUpdate(update')
  BY FieldsAre, Zenon
<1>2. IsList(update'.newRefTime)
  BY <1>1
<1>3. /\ Len(update'.request) \in Nat /\ DOMAIN update'.request = 1..Len(update'.request)
      /\ Len(update'.providers) \in Nat /\ DOMAIN update'.providers = 1..Len(update'.providers)
      /\ update'.pc = "update" => update'.i <= Len(update'.request) + 1
  BY <1>1, Zenon
<1>4. /\ update'.pc = "existing" => update'.newRefTime = refTimes'
      /\ DOMAIN refTimes' \subseteq DOMAIN update'.newRefTime
      /\ update'.pc \in {"existing", "update"} /\ update'.i \in Nat \ {0}
  BY <1>1, Zenon
<1> QED BY <1>1, <1>2, <1>3, <1>4, Zenon DEF Underway

\* An update that has done no key yet.
LEMMA Begun ==
  ASSUME IsList(refTimes)', Underway', (Done = {})', (update.newRefTime = refTimes)'
  PROVE  IInv'
BY DEF IInv, ModelOK, StatusOK, Listed, SameRun

\* An update that is answered, the note having been left alone or being a list.
LEMMA Answered ==
  ASSUME IsList(refTimes)', update' = Idle
  PROVE  IInv'
BY DEF IInv

\* The empty list.
LEMMA InitEstablishes == Init => IInv
BY DEF Init, IInv, IsList, NoRefTimes

----------------------------------------------------------------------------
(* The steps                                                                *)

\* The database changes.
LEMMA DbStep ==
  ASSUME IInv, DbChanges
  PROVE  IInv'
<1>1. UNCHANGED <<refTimes, update>> /\ quiet' = FALSE
  BY DEF DbChanges
<1>2. Done' = Done /\ Asked' = Asked
  BY <1>1 DEF Done, Asked
<1>3. Listed'
  BY <1>1 DEF Listed
<1>4. \A model : ModelOK(model) => ModelOK(model)'
  BY <1>1, <1>2 DEF ModelOK, NamesSibling, NamedOnce, Names, SameRun
<1>a. \A model : StatusOK(model) => StatusOK(model)'
  BY <1>1, <1>2 DEF StatusOK, Names
<1>5. (Underway => Underway') /\ (IsList(refTimes) => IsList(refTimes)')
  BY <1>1 DEF Underway, IsList, IsUpdate
<1> QED BY <1>1, <1>3, <1>4, <1>5, <1>a DEF IInv

\* Nothing changes.
LEMMA Stutter ==
  ASSUME IInv, UNCHANGED vars
  PROVE  IInv'
<1>1. UNCHANGED <<db, refTimes, update, now, quiet>>
  BY DEF vars
<1>2. Done' = Done /\ Asked' = Asked
  BY <1>1 DEF Done, Asked
<1>3. Listed => Listed'
  <2>1. \A r : FoundFor(r)' = FoundFor(r)
    BY <1>1, SameFound
  <2> QED BY <1>1, <1>2, <2>1 DEF Listed
<1>4. \A model : ModelOK(model) => ModelOK(model)'
  BY <1>1, <1>2 DEF ModelOK, NamesSibling, NamedOnce, Names, SameRun
<1>a. \A model : StatusOK(model) => StatusOK(model)'
  BY <1>1, <1>2 DEF StatusOK, Names
<1>5. (Underway => Underway') /\ (IsList(refTimes) => IsList(refTimes)')
  BY <1>1 DEF Underway, IsList, IsUpdate
<1> QED BY <1>1, <1>3, <1>4, <1>5, <1>a DEF IInv

\* What checkProviders makes of a request is a sequence.
LEMMA CheckedIs ==
  ASSUME NEW request \in Requests, NEW g \in Seq(STRING)
  PROVE  LET q == checkProviders(request, g)
         IN  Len(q) \in Nat /\ DOMAIN q = 1..Len(q)
<1>1. request \in Seq(Asks)
  BY UpdateAssumption
<1>2. CASE request # <<>>
  BY <1>1, <1>2 DEF checkProviders
<1>3. CASE request = <<>>
  <2> DEFINE q == checkProviders(request, g)
  <2>1. DOMAIN q = 1..Len(g) /\ Len(g) \in Nat
    BY <1>1, <1>3 DEF checkProviders
  <2>2. \E S : q \in Seq(S)
    <3>1. q = [j \in 1..Len(g) |-> q[j]]
      BY <1>1, <1>3 DEF checkProviders
    <3> HIDE DEF q
    <3>2. q \in Seq({q[j] : j \in 1..Len(g)})
      BY <2>1, <3>1
    <3> QED BY <3>2
  <2> HIDE DEF q
  <2> QED BY <2>2 DEF q
<1> QED BY <1>2, <1>3

\* The priority list of a request is a sequence.
LEMMA ListIs ==
  ASSUME NEW g \in providerPrioritySetPlacename
  PROVE  g \in Seq(STRING)
<1>1. Len(Providers) \in Nat /\ Range(Providers) \subseteq STRING
  BY UpdateAssumption DEF Range
<1>2. PICK n \in 0..Len(Providers) : g \in [1..n -> Range(Providers)]
  BY DEF providerPrioritySetPlacename
<1>3. n \in Nat /\ g \in [1..n -> STRING]
  BY <1>1, <1>2
<1> QED BY <1>3

\* A request arrives.
LEMMA GetStep ==
  ASSUME IInv, NEW request \in Requests, get(request)
  PROVE  IInv'
<1>1. IsList(refTimes)' /\ refTimes' = refTimes
  BY DEF IInv, get, IsList
<1>2. CASE update' = Idle
  BY <1>1, <1>2, Answered
<1>3. ASSUME NEW g \in providerPrioritySetPlacename,
             update' = [pc |-> "existing", request |-> checkProviders(request, g),
                        providers |-> g, newRefTime |-> refTimes, existing |-> NoRefTimes, i |-> 1]
      PROVE  IInv'
  <2>0. g \in Seq(STRING) /\ Len(g) \in Nat /\ DOMAIN g = 1..Len(g)
    BY ListIs
  <2>1. PICK q : q = checkProviders(request, g) /\ Len(q) \in Nat /\ DOMAIN q = 1..Len(q)
    BY <2>0, CheckedIs
  <2>2. PICK x : x = NoRefTimes
    OBVIOUS
  <2>3. update' = [pc |-> "existing", request |-> q, providers |-> g, newRefTime |-> refTimes,
                   existing |-> x, i |-> 1]
    BY <1>3, <2>1, <2>2
  <2>4. Underway'
    <3>1. Len(q) \in Nat /\ DOMAIN q = 1..Len(q)
      BY <2>1
    <3>2. PICK l : l = refTimes
      OBVIOUS
    <3>3. /\ update' = [pc |-> "existing", request |-> q, providers |-> g, newRefTime |-> l, existing |-> x, i |-> 1]
          /\ IsList(l) /\ l = refTimes' /\ 1 \in Nat \ {0}
      BY <1>1, <2>3, <3>2 DEF IInv
    <3> QED BY <2>0, <3>1, <3>3, UnderwayIs, Zenon
  <2>5. (Done = {})' /\ (update.newRefTime = refTimes)'
    BY <1>1, <2>3 DEF Done
  <2> QED BY <1>1, <2>4, <2>5, Begun
<1> QED BY <1>2, <1>3 DEF get, Answer

\* The models that have data are looked up; no key is done yet.
LEMMA ExistingStep ==
  ASSUME IInv, existingProviders \/ existingProvidersEnd
  PROVE  IInv'
<1>1. IsList(refTimes)' /\ refTimes' = refTimes
  BY DEF IInv, existingProviders, existingProvidersEnd, IsList
<1>2. CASE update' = Idle
  BY <1>1, <1>2, Answered
<1>3. CASE update' # Idle
  <2>1. update.pc = "existing" /\ update # Idle
    BY DEF existingProviders, existingProvidersEnd, Idle
  <2>2. Underway
    BY <2>1 DEF IInv
  <2>3. PICK q, g, x, i :
          /\ update = [pc |-> "existing", request |-> q, providers |-> g, newRefTime |-> refTimes,
                       existing |-> x, i |-> i]
          /\ Len(q) \in Nat /\ DOMAIN q = 1..Len(q) /\ i \in Nat \ {0}
          /\ Len(g) \in Nat /\ DOMAIN g = 1..Len(g)
    BY <2>1, <2>2 DEF Underway, IsUpdate
  <2>4. PICK y :
          update' \in {[pc |-> "existing", request |-> q, providers |-> g, newRefTime |-> refTimes,
                        existing |-> y, i |-> i + 1],
                       [pc |-> "update", request |-> q, providers |-> g, newRefTime |-> refTimes,
                        existing |-> x, i |-> 1]}
    <3>1. CASE existingProviders
      <4>1. PICK y : y = Written(existingOf(update.providers[update.i]), update.existing)
        OBVIOUS
      <4>2. update' = [update EXCEPT !.existing = y, !.i = @ + 1]
        BY <3>1, <4>1 DEF existingProviders
      <4> QED BY <2>3, <4>2
    <3>2. CASE existingProvidersEnd
      <4>1. update' = [update EXCEPT !.pc = "update", !.i = 1]
        BY <1>3, <3>2 DEF existingProvidersEnd, Answer
      <4> QED BY <2>3, <4>1
    <3> QED BY <3>1, <3>2
  <2>5. Underway'
    <3>1. PICK l : l = refTimes
      OBVIOUS
    <3>2. /\ IsList(l) /\ l = refTimes' /\ 1 \in Nat \ {0} /\ i + 1 \in Nat \ {0}
          /\ 1 <= Len(q) + 1
      BY <1>1, <2>3, <3>1 DEF IInv
    <3>3. CASE update' = [pc |-> "existing", request |-> q, providers |-> g, newRefTime |-> l,
                          existing |-> y, i |-> i + 1]
      BY <2>3, <3>2, <3>3, UnderwayIs, Zenon
    <3>4. CASE update' = [pc |-> "update", request |-> q, providers |-> g, newRefTime |-> l,
                          existing |-> x, i |-> 1]
      BY <2>3, <3>2, <3>4, UnderwayIs, Zenon
    <3> QED BY <2>4, <3>1, <3>3, <3>4
  <2>6. (Done = {})' /\ (update.newRefTime = refTimes)'
    BY <1>1, <2>4 DEF Done
  <2> QED BY <1>1, <2>5, <2>6, Begun
<1> QED BY <1>2, <1>3

\* The update proper does the next key.
LEMMA KeyStep ==
  ASSUME IInv, NEW q, NEW g, NEW list, NEW x, NEW i \in Nat \ {0}, NEW new,
         update = [pc |-> "update", request |-> q, providers |-> g, newRefTime |-> list, existing |-> x, i |-> i],
         update' = [pc |-> "update", request |-> q, providers |-> g, newRefTime |-> new, existing |-> x,
                    i |-> i + 1],
         Len(g) \in Nat, DOMAIN g = 1..Len(g), Len(q) \in Nat, DOMAIN q = 1..Len(q), i <= Len(q), KeyDone(list, new, q[i]),
         UNCHANGED <<db, refTimes, now, quiet>>
  PROVE  IInv'
<1>1. update # Idle
  BY DEF Idle
<1>2. /\ IsList(refTimes) /\ Underway /\ Listed
      /\ \A model \in DOMAIN refTimes : ModelOK(model)
      /\ \A model \in DOMAIN update.newRefTime : StatusOK(model)
  BY <1>1 DEF IInv
<1>3. update.newRefTime = list /\ update.request = q /\ DOMAIN refTimes \subseteq DOMAIN list
  BY <1>2 DEF Underway
<1>4. /\ update' = [pc |-> "update", request |-> q, providers |-> g, newRefTime |-> new, existing |-> x,
                    i |-> i + 1]
      /\ update'.request = q /\ update'.newRefTime = new
  OBVIOUS
<1>5. KeyDone(list, new, q[i])
  OBVIOUS
<1>6. Done = 1..(i - 1) /\ Done' = 1..i
  BY DEF Done
<1>7. Asked = q /\ Asked' = q /\ update' # Idle
  BY <1>1 DEF Asked, Idle
<1>8. Underway'
  <2>1. IsList(new) /\ DOMAIN refTimes \subseteq DOMAIN new
    BY <1>3, <1>5 DEF KeyDone
  <2>2. i + 1 \in Nat \ {0} /\ i + 1 <= Len(q) + 1 /\ refTimes' = refTimes
    BY <1>3
  <2>3. DOMAIN refTimes' \subseteq DOMAIN new
    BY <2>1, <2>2
  <2> QED BY <1>3, <1>4, <2>1, <2>2, <2>3, UnderwayIs, Zenon
<1>9. ASSUME NEW model \in DOMAIN refTimes
      PROVE  ModelOK(model)'
  <2>1. PICK old, mid, end : old = refTimes[model] /\ mid = list[model] /\ end = new[model]
    OBVIOUS
  <2> DEFINE Sib == \E j \in DOMAIN q : q[j].key[1] = model[1]
                                        /\ q[j].key[2] \notin {AnyPlace, model[2]}
             Once == \A j, k \in DOMAIN q :
                       Names(q[j].key, model) /\ Names(q[k].key, model) => j = k
             Fine(D, e) == ~Sib =>
               /\ (\A j \in D : ~Names(q[j].key, model)) => SameRun(old, e)
               /\ Once /\ e.refTime = old.refTime => e.updatedTime = old.updatedTime
  <2>2. Fine(1..(i - 1), mid)
    <3>1. ModelOK(model)
      BY <1>2
    <3> QED BY <1>3, <1>6, <1>7, <2>1, <3>1 DEF ModelOK, NamesSibling, NamedOnce
  <2>3. /\ q[i].key[1] # model[1] => end = mid
        /\ Names(q[i].key, model) => Follows(q[i], mid, end)
    BY <1>3, <1>5, <2>1 DEF KeyDone
  <2>4. ~Sib => (q[i].key[1] = model[1] <=> Names(q[i].key, model))
    BY <1>3 DEF Names
  <2>5. Fine(1..i, end)
    <3> SUFFICES ASSUME ~Sib
                 PROVE  /\ (\A j \in 1..i : ~Names(q[j].key, model)) => SameRun(old, end)
                        /\ Once /\ end.refTime = old.refTime => end.updatedTime = old.updatedTime
      OBVIOUS
    <3>1. /\ (\A j \in 1..(i - 1) : ~Names(q[j].key, model)) => SameRun(old, mid)
          /\ Once /\ mid.refTime = old.refTime => mid.updatedTime = old.updatedTime
      BY <2>2
    <3>2. CASE ~Names(q[i].key, model)
      <4>1. end = mid
        BY <2>3, <2>4, <3>2
      <4> QED BY <1>3, <3>1, <3>2, <4>1
    <3>3. CASE Names(q[i].key, model)
      <4>1. Follows(q[i], mid, end)
        BY <2>3, <3>3
      <4>3. Once => SameRun(old, mid)
        <5>1. Once => \A j \in 1..(i - 1) : ~Names(q[j].key, model)
          BY <1>3, <3>3
        <5> QED BY <3>1, <5>1
      <4>4. Once /\ end.refTime = old.refTime => end.updatedTime = old.updatedTime
        BY <4>1, <4>3 DEF Follows, SameRun
      <4>5. i \in 1..i
        BY <1>3
      <4> QED BY <3>3, <4>4, <4>5
    <3> QED BY <3>2, <3>3
  <2>6. /\ NamesSibling(model)' <=> Sib
        /\ NamedOnce(model)' <=> Once
    BY <1>7 DEF NamesSibling, NamedOnce
  <2>7. refTimes'[model] = old /\ update'.newRefTime[model] = end
    BY <1>4, <2>1
  <2>8. update'.request = q
    BY <1>4
  <2> HIDE DEF Sib, Once
  <2> QED BY <1>6, <2>5, <2>6, <2>7, <2>8 DEF ModelOK, SameRun
<1>a. ASSUME NEW model \in DOMAIN new
      PROVE  StatusOK(model)'
  <2>1. StatusOf(q[i], list, model, new[model])
    BY <1>5 DEF KeyDone
  <2>2. i \in 1..i /\ 1..(i - 1) \subseteq 1..i
    BY <1>3
  <2>3. CASE model \in DOMAIN list /\ new[model].disabled = list[model].disabled
    <3>1. StatusOK(model)
      BY <1>2, <1>3, <2>3
    <3> QED BY <1>3, <1>4, <1>6, <2>2, <2>3, <3>1 DEF StatusOK
  <2>4. CASE /\ q[i].key[1] = model[1] /\ new[model].disabled = q[i].disabled
             /\ model \in DOMAIN list /\ Names(q[i].key, model) => q[i].disableEnableRequest
    <3>1. model \in DOMAIN refTimes' => model \in DOMAIN list
      BY <1>3
    <3> QED BY <1>4, <1>6, <2>2, <2>4, <3>1 DEF StatusOK
  <2> QED BY <2>1, <2>3, <2>4 DEF StatusOf
<1>10. Listed'
  <2> SUFFICES ASSUME quiet, NEW j \in 1..i, q[j].reftimeUpdateRequest,
                      \A k \in 1..i : k > j => q[k].key[1] # q[j].key[1],
                      NEW model \in DOMAIN FoundFor(q[j])
               PROVE  model \in DOMAIN new /\ new[model].refTime = FoundFor(q[j])[model].refTime
    <3>1. \A r : FoundFor(r)' = FoundFor(r)
      BY SameFound
    <3>2. Done' = 1..i /\ update'.request = q /\ update'.newRefTime = new /\ quiet' = quiet
      BY <1>6, <1>4
    <3> QED BY <3>1, <3>2 DEF Listed
  <2>1. CASE j = i
    BY <1>5, <2>1 DEF KeyDone
  <2>2. CASE j # i
    <3>1. j \in 1..(i - 1) /\ i \in 1..i /\ i > j
      BY <1>3, <2>2
    <3>2. model \in DOMAIN list /\ list[model].refTime = FoundFor(q[j])[model].refTime
      BY <1>2, <1>3, <1>6, <3>1 DEF Listed
    <3>3. q[i].key[1] # q[j].key[1]
      BY <3>1
    <3>4. model[1] = q[j].key[1]
      BY BrowseIs DEF FoundFor
    <3> QED BY <1>5, <3>2, <3>3, <3>4 DEF KeyDone
  <2> QED BY <2>1, <2>2
<1>11. IsList(refTimes)'
  BY <1>2 DEF IsList
<1> QED BY <1>4, <1>7, <1>8, <1>9, <1>a, <1>10, <1>11 DEF IInv

\* The next key of the request: it fails or is done.
LEMMA UpdateStep ==
  ASSUME IInv, updateProviderRefTimes
  PROVE  IInv'
<1>1. update.pc = "update" /\ update # Idle /\ UNCHANGED <<db, refTimes, now, quiet>>
  BY DEF updateProviderRefTimes, Idle
<1>2. IsList(refTimes)'
  BY <1>1 DEF IInv, IsList
<1>3. CASE update' = Idle
  BY <1>2, <1>3, Answered
<1>4. CASE update' # Idle
  <2>1. PICK q, g, list, x, i :
          /\ update = [pc |-> "update", request |-> q, providers |-> g, newRefTime |-> list,
                       existing |-> x, i |-> i]
          /\ Len(q) \in Nat /\ DOMAIN q = 1..Len(q) /\ i \in Nat \ {0} /\ IsList(list)
          /\ Len(g) \in Nat /\ DOMAIN g = 1..Len(g)
    BY <1>1 DEF IInv, Underway, IsUpdate
  <2>2. /\ i <= Len(q)
        /\ update.newRefTime = list /\ update.request[update.i] = q[i]
    BY <2>1 DEF updateProviderRefTimes
  <2>3. PICK r : r = q[i]
    OBVIOUS
  <2>4. PICK new : /\ update' = [update EXCEPT !.newRefTime = new, !.i = @ + 1]
                   /\ KeyDone(list, new, r)
    <3>1. IsList(list)
      BY <2>1
    <3>2. /\ StopsThere(list, r) => KeyDone(list, statusUpdated(list, r), r)
          /\ KeyDone(list, updatedList(statusUpdated(list, r), r, FoundFor(r)), r)
      BY <3>1, KeyIsDone, Zenon
    <3>3. \/ /\ StopsThere(list, r)
             /\ update' = [update EXCEPT !.newRefTime = statusUpdated(list, r), !.i = @ + 1]
          \/ update' = [update EXCEPT !.newRefTime = updatedList(statusUpdated(list, r), r, FoundFor(r)),
                                      !.i = @ + 1]
      BY <1>4, <2>2, <2>3, Zenon DEF updateProviderRefTimes, FoundFor, Answer
    <3> QED BY <3>2, <3>3, Zenon
  <2>5. update' = [pc |-> "update", request |-> q, providers |-> g, newRefTime |-> new, existing |-> x,
                   i |-> i + 1]
    BY <2>1, <2>4
  <2> QED BY <1>1, <2>1, <2>2, <2>3, <2>4, <2>5, KeyStep, Zenon
<1> QED BY <1>3, <1>4

\* What is published is a part of the list.
LEMMA PublishedIs ==
  ASSUME IInv, setNote
  PROVE  /\ update.pc = "update" /\ update # Idle /\ update' = Idle /\ Underway
         /\ update.i > Len(update.request)
         /\ DOMAIN refTimes' = DOMAIN update.newRefTime \cap DOMAIN update.existing
         /\ \A model \in DOMAIN refTimes' : refTimes'[model] = update.newRefTime[model]
BY DEF IInv, setNote, Answer, Idle, checkAgainstExistingProviders, Restrict

\* The list is published.
LEMMA SetNoteStep ==
  ASSUME IInv, setNote
  PROVE  IInv'
<1>1. IsList(refTimes)'
  BY PublishedIs DEF Underway, IsList
<1> QED BY <1>1, PublishedIs, Answered

\* The invariant holds in every state.
LEMMA Invariance == Spec => []IInv
<1>1. IInv /\ [Next]_vars => IInv'
  <2> SUFFICES ASSUME IInv, [Next]_vars
               PROVE  IInv'
    OBVIOUS
  <2>1. CASE \E model \in Models : NewRun(model) \/ DeleteRun(model)
    BY <2>1, DbStep DEF NewRun, DeleteRun
  <2>2. CASE \E request \in Requests : get(request)
    BY <2>2, GetStep
  <2>3. CASE getDebug \/ dbError
    BY <2>3, Answered DEF getDebug, dbError, Answer, IInv, IsList
  <2>4. CASE existingProviders \/ existingProvidersEnd
    BY <2>4, ExistingStep
  <2>5. CASE updateProviderRefTimes
    BY <2>5, UpdateStep
  <2>6. CASE setNote
    BY <2>6, SetNoteStep
  <2>7. CASE UNCHANGED vars
    BY <2>7, Stutter
  <2> QED BY <2>1, <2>2, <2>3, <2>4, <2>5, <2>6, <2>7 DEF Next
<1> QED BY <1>1, InitEstablishes, PTL DEF Spec

----------------------------------------------------------------------------
(* What an update may do                                                    *)

\* Only setNote changes the note.
LEMMA OnlySetNote ==
  ASSUME [Next]_vars, refTimes' # refTimes
  PROVE  setNote
BY DEF Next, vars, NewRun, DeleteRun, DbChanges, get, getDebug, dbError, existingProviders,
       existingProvidersEnd, updateProviderRefTimes

\* When the list is published, all keys have been done.
LEMMA AllDone ==
  ASSUME IInv, setNote
  PROVE  /\ Asked = update.request /\ Done = DOMAIN Asked
         /\ \A model \in DOMAIN refTimes : ModelOK(model)
         /\ \A model \in DOMAIN update.newRefTime : StatusOK(model)
         /\ Listed
<1>1. Asked = update.request /\ Done = 1..(update.i - 1)
  BY PublishedIs DEF Asked, Done
<1>2. /\ update.i \in Nat /\ Len(update.request) \in Nat
      /\ DOMAIN update.request = 1..Len(update.request)
      /\ update.i > Len(update.request) /\ update.i <= Len(update.request) + 1
  BY PublishedIs DEF Underway
<1>3. update.i - 1 = Len(update.request)
  BY <1>2
<1> QED BY <1>1, <1>2, <1>3, PublishedIs DEF IInv

\* A model that stays keeps its status unless a key of its request says
\* otherwise (updateProviderRefTimes keeps "old.disabled"), and one that comes,
\* or comes back, has the status of the key that brings it, for any request and
\* however its queries interleave with the database's changes.
THEOREM StatusIsKept == Spec => StatusOnlyOnRequest
<1>1. IInv /\ [Next]_vars =>
        [\A model \in DOMAIN refTimes' :
           (Stays(model) => refTimes[model].disabled # refTimes'[model].disabled)
           => \E i \in DOMAIN Asked :
                 LET r == Asked[i]
                 IN /\ r.key[1] = model[1]
                    /\ r.disabled = refTimes'[model].disabled
                    /\ Stays(model) /\ Names(r.key, model) => r.disableEnableRequest]_vars
  <2> SUFFICES ASSUME IInv, [Next]_vars, NEW model \in DOMAIN refTimes',
                      Stays(model) => refTimes[model].disabled # refTimes'[model].disabled
               PROVE  \E i \in DOMAIN Asked :
                        /\ Asked[i].key[1] = model[1]
                        /\ Asked[i].disabled = refTimes'[model].disabled
                        /\ Stays(model) /\ Names(Asked[i].key, model) =>
                             Asked[i].disableEnableRequest
    OBVIOUS
  <2>1. setNote
    BY OnlySetNote DEF Stays
  <2>2. refTimes'[model] = update.newRefTime[model] /\ model \in DOMAIN update.newRefTime
    BY <2>1, PublishedIs
  <2>3. StatusOK(model)
    BY <2>1, <2>2, AllDone
  <2> QED BY <2>1, <2>2, <2>3, AllDone DEF StatusOK, Stays
<1> QED BY <1>1, Invariance, PTL DEF Spec, StatusOnlyOnRequest

\* The time a run is served from stays as long as the run does
\* (updateProviderRefTimes: "Do not update the reftime if we allready have a
\* record for this reftime"), for a model that one key of the request names.
THEOREM TimeIsKept == Spec => ServedSince
<1>1. IInv /\ [Next]_vars =>
        [\A model \in Models :
           /\ Stays(model) /\ ~NamesSibling(model) /\ NamedOnce(model)
           /\ refTimes[model].refTime = refTimes'[model].refTime
           => refTimes[model].updatedTime = refTimes'[model].updatedTime]_vars
  <2> SUFFICES ASSUME IInv, [Next]_vars, NEW model \in Models, Stays(model),
                      ~NamesSibling(model), NamedOnce(model),
                      refTimes[model].refTime = refTimes'[model].refTime
               PROVE  refTimes[model].updatedTime = refTimes'[model].updatedTime
    OBVIOUS
  <2>1. CASE refTimes' = refTimes
    BY <2>1
  <2>2. CASE refTimes' # refTimes
    <3>1. setNote
      BY <2>2, OnlySetNote
    <3>2. refTimes'[model] = update.newRefTime[model]
      BY <3>1, PublishedIs DEF Stays
    <3>3. ModelOK(model)
      BY <3>1, AllDone DEF Stays
    <3> QED BY <3>2, <3>3 DEF ModelOK
  <2> QED BY <2>1, <2>2
<1> QED BY <1>1, Invariance, PTL DEF Spec, ServedSince

----------------------------------------------------------------------------
(* What the database had when an update looked                              *)

\* The providers whose models the update has looked up.
LookedUp ==
  IF update.pc = "existing" THEN {j \in DOMAIN update.providers : j < update.i}
  ELSE DOMAIN update.providers

\* Every key is about a provider of the priority list, and in a quiet update the
\* models that exist are those of the providers looked up.
Looked ==
  update # Idle =>
    /\ \A i \in DOMAIN update.request :
         /\ update.request[i].refTime \in RefTimes \cup {NULL}
         /\ \E j \in DOMAIN update.providers : update.providers[j] = update.request[i].key[1]
    /\ quiet => DOMAIN update.existing =
                  UNION {DOMAIN existingOf(update.providers[j]) : j \in LookedUp}

\* A key of a request, or one made for a provider of the priority list.
LEMMA KeysAre ==
  ASSUME NEW request \in Requests, NEW g \in Seq(STRING), Known(request, g)
  PROVE  \A i \in DOMAIN checkProviders(request, g) :
           LET r == checkProviders(request, g)[i]
           IN  /\ r.refTime \in RefTimes \cup {NULL}
               /\ \E j \in DOMAIN g : g[j] = r.key[1]
<1>1. CASE request # <<>>
  <2>1. checkProviders(request, g) = request /\ request \in Seq(Asks)
    BY <1>1, UpdateAssumption DEF checkProviders
  <2>a. \A r \in Asks : r.refTime \in RefTimes \cup {NULL}
    BY DEF Asks
  <2>b. \A i \in DOMAIN request : request[i] \in Asks
    BY <2>1
  <2>2. \A i \in DOMAIN request : request[i].refTime \in RefTimes \cup {NULL}
    BY <2>a, <2>b
  <2> QED BY <2>1, <2>2 DEF Known
<1>2. CASE request = <<>>
  <2> DEFINE q == checkProviders(request, g)
  <2>1. DOMAIN q = DOMAIN g /\ \A i \in DOMAIN g : q[i].refTime = NULL /\ q[i].key = <<g[i], AnyPlace>>
    BY <1>2 DEF checkProviders
  <2> HIDE DEF q
  <2>2. \A i \in DOMAIN q : q[i].refTime \in RefTimes \cup {NULL} /\ g[i] = q[i].key[1]
    BY <2>1
  <2> QED BY <2>1, <2>2 DEF q
<1> QED BY <1>1, <1>2

\* The look-ups of a provider give the same as long as the database does.
LEMMA SameExisting ==
  ASSUME UNCHANGED <<db, now>>, NEW p
  PROVE  existingOf(p)' = existingOf(p)
BY DEF existingOf, browse

\* The update goes on without touching what it has looked up.
LEMMA LookedSame ==
  ASSUME Looked, update # Idle, UNCHANGED <<db, now, quiet>>,
         update'.request = update.request, update'.providers = update.providers,
         update'.existing = update.existing, LookedUp' = LookedUp
  PROVE  Looked'
<1>1. \A p : existingOf(p)' = existingOf(p)
  BY SameExisting
<1>2. quiet => UNION {DOMAIN existingOf(update.providers[j]) : j \in LookedUp} =
               UNION {DOMAIN existingOf(update.providers[j])' : j \in LookedUp'}
  BY <1>1
<1> QED BY <1>2 DEF Looked

\* Every step keeps it.
LEMMA LookedStep ==
  ASSUME IInv, Looked, [Next]_vars
  PROVE  Looked'
<1>1. CASE \E request \in Requests : get(request)
  <2>1. PICK request \in Requests : get(request)
    BY <1>1
  <2>2. CASE update' = Idle
    BY <2>2 DEF Looked
  <2>3. CASE update' # Idle
    <3>1. PICK g \in providerPrioritySetPlacename :
            /\ Known(request, g)
            /\ update' = [pc |-> "existing", request |-> checkProviders(request, g),
                          providers |-> g, newRefTime |-> refTimes,
                          existing |-> NoRefTimes, i |-> 1]
      BY <2>1, <2>3 DEF get, Answer
    <3>2. PICK q : q = checkProviders(request, g)
      OBVIOUS
    <3>3. /\ update'.pc = "existing" /\ update'.request = q /\ update'.providers = g
          /\ update'.existing = NoRefTimes /\ update'.i = 1
      BY <3>1, <3>2
    <3>4. g \in Seq(STRING)
      BY ListIs
    <3>5. \A i \in DOMAIN q : /\ q[i].refTime \in RefTimes \cup {NULL}
                              /\ \E j \in DOMAIN g : g[j] = q[i].key[1]
      BY <3>1, <3>2, <3>4, KeysAre
    <3>6. LookedUp' = {}
      BY <3>3, <3>4 DEF LookedUp
    <3>7. DOMAIN NoRefTimes = {}
      BY DEF NoRefTimes
    <3> QED BY <3>3, <3>5, <3>6, <3>7 DEF Looked
  <2> QED BY <2>2, <2>3
<1>2. CASE getDebug \/ dbError \/ setNote
  BY <1>2 DEF getDebug, dbError, setNote, Answer, Looked
<1>3. CASE \E model \in Models : NewRun(model) \/ DeleteRun(model)
  <2>1. quiet' = FALSE /\ update' = update
    BY <1>3 DEF NewRun, DeleteRun, DbChanges
  <2> QED BY <2>1 DEF Looked
<1>4. CASE UNCHANGED vars
  <2>1. UNCHANGED <<db, now, quiet, update>>
    BY <1>4 DEF vars
  <2>2. CASE update = Idle
    BY <2>1, <2>2 DEF Looked
  <2>3. CASE update # Idle
    BY <2>1, <2>3, LookedSame DEF LookedUp
  <2> QED BY <2>2, <2>3
<1>5. CASE existingProviders
  <2>1. update.pc = "existing" /\ update # Idle /\ Underway
    BY <1>5 DEF existingProviders, Idle, IInv
  <2>2. PICK q, g, l, x, i :
          /\ update = [pc |-> "existing", request |-> q, providers |-> g, newRefTime |-> l,
                       existing |-> x, i |-> i]
          /\ i \in Nat /\ Len(g) \in Nat /\ DOMAIN g = 1..Len(g) /\ i <= Len(g)
    BY <1>5, <2>1 DEF Underway, IsUpdate, existingProviders
  <2>3. PICK y : y = Written(existingOf(g[i]), x)
    OBVIOUS
  <2>4. /\ update' = [pc |-> "existing", request |-> q, providers |-> g, newRefTime |-> l,
                      existing |-> y, i |-> i + 1]
        /\ UNCHANGED <<db, now, quiet>>
    BY <1>5, <2>2, <2>3 DEF existingProviders
  <2>5. DOMAIN y = DOMAIN existingOf(g[i]) \cup DOMAIN x
    BY <2>3 DEF Written
  <2>6. LookedUp = 1..(i - 1) /\ LookedUp' = 1..i
    BY <2>2, <2>4 DEF LookedUp
  <2>7. 1..i = 1..(i - 1) \cup {i}
    <3>1. i \in Nat \ {0}
      BY <2>1, <2>2 DEF Underway
    <3> QED BY <3>1
  <2>8. quiet => DOMAIN y = UNION {DOMAIN existingOf(g[j]) : j \in 1..i}
    <3>1. quiet => DOMAIN x = UNION {DOMAIN existingOf(g[j]) : j \in 1..(i - 1)}
      BY <2>1, <2>2, <2>6 DEF Looked
    <3> QED BY <2>5, <2>7, <3>1
  <2>9. \A p : existingOf(p)' = existingOf(p)
    BY <2>4, SameExisting
  <2>10. \A k \in DOMAIN q : /\ q[k].refTime \in RefTimes \cup {NULL}
                             /\ \E j \in DOMAIN g : g[j] = q[k].key[1]
    BY <2>1, <2>2 DEF Looked
  <2>11. update'.request = q /\ update'.providers = g /\ update'.existing = y
    BY <2>4
  <2>12. quiet' => DOMAIN y = UNION {DOMAIN existingOf(g[j])' : j \in 1..i}
    BY <2>4, <2>8, <2>9
  <2> QED BY <2>6, <2>10, <2>11, <2>12 DEF Looked
<1>6. CASE existingProvidersEnd
  <2>1. update.pc = "existing" /\ update # Idle /\ Underway
    BY <1>6 DEF existingProvidersEnd, Idle, IInv
  <2>2. CASE update' = Idle
    BY <2>2 DEF Looked
  <2>3. CASE update' # Idle
    <3>1. update' = [update EXCEPT !.pc = "update", !.i = 1] /\ UNCHANGED <<db, now, quiet>>
      BY <1>6, <2>3 DEF existingProvidersEnd, Answer
    <3>2. PICK q, g, l, x, i :
            /\ update = [pc |-> "existing", request |-> q, providers |-> g, newRefTime |-> l,
                         existing |-> x, i |-> i]
            /\ i \in Nat /\ Len(g) \in Nat /\ DOMAIN g = 1..Len(g) /\ i > Len(g)
      BY <1>6, <2>1 DEF Underway, IsUpdate, existingProvidersEnd
    <3>3. update' = [pc |-> "update", request |-> q, providers |-> g, newRefTime |-> l,
                     existing |-> x, i |-> 1]
      BY <3>1, <3>2
    <3>4. LookedUp = DOMAIN g /\ LookedUp' = DOMAIN g
      BY <3>2, <3>3 DEF LookedUp
    <3>5. /\ update'.request = update.request /\ update'.providers = update.providers
          /\ update'.existing = update.existing
      BY <3>2, <3>3
    <3> QED BY <2>1, <3>1, <3>4, <3>5, LookedSame
  <2> QED BY <2>2, <2>3
<1>7. CASE updateProviderRefTimes
  <2>1. update.pc = "update" /\ update # Idle /\ Underway /\ UNCHANGED <<db, now, quiet>>
    BY <1>7 DEF updateProviderRefTimes, Idle, IInv
  <2>2. CASE update' = Idle
    BY <2>2 DEF Looked
  <2>3. CASE update' # Idle
    <3>1. PICK new : update' = [update EXCEPT !.newRefTime = new, !.i = @ + 1]
      BY <1>7, <2>3, Zenon DEF updateProviderRefTimes, Answer
    <3>2. PICK q, g, l, x, i :
            update = [pc |-> "update", request |-> q, providers |-> g, newRefTime |-> l,
                      existing |-> x, i |-> i]
      BY <2>1 DEF Underway, IsUpdate
    <3>3. update' = [pc |-> "update", request |-> q, providers |-> g, newRefTime |-> new,
                     existing |-> x, i |-> i + 1]
      BY <3>1, <3>2
    <3>4. LookedUp = DOMAIN g /\ LookedUp' = DOMAIN g
      BY <3>2, <3>3 DEF LookedUp
    <3>5. /\ update'.request = update.request /\ update'.providers = update.providers
          /\ update'.existing = update.existing
      BY <3>2, <3>3
    <3> QED BY <2>1, <3>4, <3>5, LookedSame
  <2> QED BY <2>2, <2>3
<1> QED BY <1>1, <1>2, <1>3, <1>4, <1>5, <1>6, <1>7 DEF Next

\* Which models of a provider exist for an update.
LEMMA ExistingIs ==
  ASSUME NEW model
  PROVE  \A p : model \in DOMAIN existingOf(p) <=>
                  /\ model \in DOMAIN browse(p, RefTimes, AnyVersion)
                  /\ p = model[1] /\ ~Outdated(model)
<1> SUFFICES ASSUME NEW p
             PROVE  model \in DOMAIN existingOf(p) <=>
                      /\ model \in DOMAIN browse(p, RefTimes, AnyVersion)
                      /\ p = model[1] /\ ~Outdated(model)
  OBVIOUS
<1>1. \A times : model \in DOMAIN browse(p, times, AnyVersion) <=>
                   /\ model \in Models /\ model[1] = p
                   /\ \E run \in db[model] : run.refTime \in times
  BY DEF browse
<1>2. Recent \subseteq RefTimes
  BY UpdateAssumption
<1>3. model \in DOMAIN browse(p, Recent, AnyVersion) =>
        model \in DOMAIN browse(p, RefTimes, AnyVersion) /\ model[1] = p
  BY <1>1, <1>2
<1>4. model \in DOMAIN browse(p, RefTimes, AnyVersion) => p = model[1]
  BY <1>1
<1>5. CASE browse(p, Recent, AnyVersion) # NoRefTimes
  BY <1>3, <1>4, <1>5 DEF existingOf, Outdated
<1>6. CASE browse(p, Recent, AnyVersion) = NoRefTimes
  BY <1>3, <1>4, <1>6 DEF existingOf, Outdated
<1> QED BY <1>5, <1>6

\* What the database has for a key it has at all.
LEMMA FoundExists ==
  ASSUME NEW r, r.refTime \in RefTimes \cup {NULL}, NEW model \in DOMAIN FoundFor(r)
  PROVE  model[1] = r.key[1] /\ model \in DOMAIN browse(model[1], RefTimes, AnyVersion)
<1>1. Times(r.refTime) \subseteq RefTimes
  BY DEF Times
<1>2. model \in Models /\ model[1] = r.key[1] /\ \E run \in db[model] : run.refTime \in Times(r.refTime)
  BY DEF FoundFor, browse
<1> QED BY <1>1, <1>2 DEF browse

\* A quiet update publishes, of the models it names and of those in the list,
\* the ones that exist.
LEMMA PublishedExist ==
  ASSUME IInv, Looked, setNote, quiet, NEW model, model \in DOMAIN update.newRefTime
  PROVE  model \in DOMAIN refTimes' <=>
           /\ \E j \in DOMAIN update.providers : update.providers[j] = model[1]
           /\ model \in DOMAIN browse(model[1], RefTimes, AnyVersion)
           /\ ~Outdated(model)
<1>1. update # Idle /\ LookedUp = DOMAIN update.providers
  BY PublishedIs DEF LookedUp
<1>2. DOMAIN update.existing =
        UNION {DOMAIN existingOf(update.providers[j]) : j \in DOMAIN update.providers}
  BY <1>1 DEF Looked
<1>3. model \in DOMAIN refTimes' <=> model \in DOMAIN update.existing
  BY PublishedIs
<1>4. model \in DOMAIN update.existing <=>
        \E j \in DOMAIN update.providers : model \in DOMAIN existingOf(update.providers[j])
  BY <1>2
<1> QED BY <1>3, <1>4, ExistingIs

\* A quiet update publishes, for every key that asks for a reference time, the
\* runs the database has for it, but for the outdated models, which
\* checkAgainstExistingProviders takes away; and it takes nothing from the list
\* but those, models without data and models of providers it did not find.
THEOREM KeysTakeEffect == Spec => RequestTakesEffect
<1>1. IInv /\ Looked /\ [Next]_vars =>
        [setNote /\ quiet =>
           /\ \A i \in DOMAIN Asked :
                LET r == Asked[i]
                    found == browse(r.key[1], Times(r.refTime), r.dataversion)
                IN /\ r.reftimeUpdateRequest
                   /\ \A j \in DOMAIN Asked : j > i => Asked[j].key[1] # r.key[1]
                   => \A model \in DOMAIN found :
                         Names(r.key, model) =>
                           IF Outdated(model) THEN model \notin DOMAIN refTimes'
                           ELSE /\ model \in DOMAIN refTimes'
                                /\ refTimes'[model].refTime = found[model].refTime
           /\ \A model \in DOMAIN refTimes \ DOMAIN refTimes' :
                \/ Outdated(model)
                \/ model \notin DOMAIN browse(model[1], RefTimes, AnyVersion)
                \/ \A i \in DOMAIN update.providers : update.providers[i] # model[1]]_vars
  <2> SUFFICES ASSUME IInv, Looked, setNote, quiet
               PROVE  /\ \A i \in DOMAIN Asked :
                           /\ Asked[i].reftimeUpdateRequest
                           /\ \A j \in DOMAIN Asked : j > i => Asked[j].key[1] # Asked[i].key[1]
                           => \A model \in DOMAIN FoundFor(Asked[i]) :
                                IF Outdated(model) THEN model \notin DOMAIN refTimes'
                                ELSE /\ model \in DOMAIN refTimes'
                                     /\ refTimes'[model].refTime = FoundFor(Asked[i])[model].refTime
                      /\ \A model \in DOMAIN refTimes \ DOMAIN refTimes' :
                           \/ Outdated(model)
                           \/ model \notin DOMAIN browse(model[1], RefTimes, AnyVersion)
                           \/ \A i \in DOMAIN update.providers : update.providers[i] # model[1]
    BY Zenon DEF FoundFor
  <2>1. ASSUME NEW i \in DOMAIN Asked, Asked[i].reftimeUpdateRequest,
               \A j \in DOMAIN Asked : j > i => Asked[j].key[1] # Asked[i].key[1],
               NEW model \in DOMAIN FoundFor(Asked[i])
        PROVE  IF Outdated(model) THEN model \notin DOMAIN refTimes'
               ELSE /\ model \in DOMAIN refTimes'
                    /\ refTimes'[model].refTime = FoundFor(Asked[i])[model].refTime
    <3>1. /\ model \in DOMAIN update.newRefTime
          /\ update.newRefTime[model].refTime = FoundFor(Asked[i])[model].refTime
      BY <2>1, AllDone DEF Listed
    <3>2. /\ Asked[i].refTime \in RefTimes \cup {NULL}
          /\ \E j \in DOMAIN update.providers : update.providers[j] = Asked[i].key[1]
      BY AllDone, PublishedIs DEF Looked
    <3>3. model[1] = Asked[i].key[1] /\ model \in DOMAIN browse(model[1], RefTimes, AnyVersion)
      BY <3>2, FoundExists
    <3>4. model \in DOMAIN refTimes' <=> ~Outdated(model)
      BY <3>1, <3>2, <3>3, PublishedExist
    <3> QED BY <3>1, <3>4, PublishedIs
  <2>2. ASSUME NEW model \in DOMAIN refTimes \ DOMAIN refTimes'
        PROVE  \/ Outdated(model)
               \/ model \notin DOMAIN browse(model[1], RefTimes, AnyVersion)
               \/ \A i \in DOMAIN update.providers : update.providers[i] # model[1]
    <3>1. model \in DOMAIN update.newRefTime
      BY PublishedIs DEF Underway
    <3> QED BY <3>1, PublishedExist
  <2> QED BY <2>1, <2>2
<1>2. Init => Looked
  BY DEF Init, Looked
<1>3. IInv /\ Looked /\ [Next]_vars => Looked'
  BY LookedStep
<1> QED BY <1>1, <1>2, <1>3, Invariance, PTL DEF Spec, RequestTakesEffect
================================================================================
