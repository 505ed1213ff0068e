----------------------------- MODULE QueryCache -----------------------------
(***************************************************************************)
(* The signed-in pages of the web client, as far as they cache what the    *)
(* server holds: a panel (a React component) shows lists and records it    *)
(* has queried, changes them through requests of its own, and has the      *)
(* queries that show a change fetched again when the answer comes.  The    *)
(* cache is TanStack Query's, with the options of client/lib/queryClient.  *)
(* What each panel shows, changes and refetches is data: AdminPanels,      *)
(* TeachingPanels and AccountPanels have the tables.                       *)
(***************************************************************************)
EXTENDS Naturals, FiniteSets

CONSTANTS Panels,     \* the panels, see PanelRecord
          Writes,     \* bound: changes of the server's data, a panel's and others'
          MaxFaults,  \* bound: requests that get no answer
          NoKey

(* views: the queries of the panel.  family: those views of which one is    *)
(* selected at a time (a conversation, an assignment).  polled: they have a *)
(* refetchInterval; live: events of the server make them stale.             *)
(* ops: the requests of the panel, by name.  affects: the views that show   *)
(* what the request changes; keyed: so does the selected member of the      *)
(* family; refetches: the views invalidated by its answer, with keyed the   *)
(* member selected by then; settled: also by an error; sets: the views      *)
(* written from the answer; gate: views that have data when its control is  *)
(* shown; single: the control is dead while the request is under way;       *)
(* optimistic: the selected member shows the change before it is made;      *)
(* forgets: views that it changes and nobody fetches again.                 *)
OpFields == {"affects", "refetches", "sets", "gate", "forgets",
             "keyed", "settled", "single", "optimistic"}
OpOf(views, o) ==
    /\ DOMAIN o = OpFields
    /\ \A f \in {"affects", "refetches", "sets", "gate", "forgets"} : o[f] \subseteq views
    /\ o.sets \subseteq o.affects
    /\ \A f \in {"keyed", "settled", "single", "optimistic"} : o[f] \in BOOLEAN

PanelRecord(p) ==
    /\ NoKey \notin p.views
    /\ p.family \subseteq p.views /\ p.polled \subseteq p.views /\ p.live \subseteq p.views
    /\ \A n \in DOMAIN p.ops : n # NoKey /\ OpOf(p.views, p.ops[n])

(* The rule every panel is to keep: what a request changes is fetched again, *)
(* or written from its answer, except for what is listed as forgotten.      *)
Covered(o) == o.affects \ o.forgets \subseteq o.refetches \union o.sets
OptimisticSettles(o) == o.optimistic => o.keyed /\ o.settled

(* What is only written from answers, no answer fetches again.               *)
OnlySet(p) == UNION {p.ops[n].sets \ p.ops[n].refetches : n \in DOMAIN p.ops}
OnlySetIsApart(p, o) == OnlySet(p) \intersect (p.family \union o.refetches) = {}

CoverRule ==
    \A p \in Panels : \A n \in DOMAIN p.ops :
        Covered(p.ops[n]) /\ OptimisticSettles(p.ops[n]) /\ OnlySetIsApart(p, p.ops[n])
ASSUME PanelAssumption == \A p \in Panels : PanelRecord(p)
ASSUME BoundAssumption == MaxFaults \in Nat /\ IsFiniteSet(Writes)

VARIABLES
    panel,  \* the panel that is open; it does not change
    sel,    \* the selected member of its family
    entry,  \* the cache
    write,  \* the changes
    faults,
    sure    \* not the program's: see Noted

vars == <<panel, sel, entry, write, faults, sure>>

(* shown: a component observes it; has: the changes its data contain; fresh: *)
(* not invalidated; fetch: "sent" was not answered by the server yet, and   *)
(* "read" is an answer with the changes in read; failed: the last fetch has.  *)
Entries == [shown: BOOLEAN, held: BOOLEAN, has: SUBSET Writes, fresh: BOOLEAN,
            fetch: {"idle", "sent", "read"}, read: SUBSET Writes,
            failed: BOOLEAN]
NoEntry == [shown |-> FALSE, held |-> FALSE, has |-> {}, fresh |-> FALSE,
            fetch |-> "idle", read |-> {}, failed |-> FALSE]

(* stage "silent": on the server, unknown to the panel; "news": the server   *)
(* may still send an event of it; "unsure": given up by the panel and still *)
(* to be made or not.  prev is what an optimistic    *)
(* request found in the cache.                                              *)
Stages == {"none", "sent", "done", "refused", "told", "failed", "silent", "unsure", "news"}
NoWrite == [op |-> NoKey, keys |-> {}, stage |-> "none", prev |-> {}]

ConsoleTypeOK ==
    /\ panel \in Panels
    /\ sel \in panel.family \union {NoKey}
    /\ entry \in [panel.views -> Entries]
    /\ write \in [Writes -> [op: DOMAIN panel.ops \union {NoKey}, keys: SUBSET panel.views, stage: Stages,
                             prev: SUBSET Writes]]
    /\ faults \in 0..MaxFaults
    /\ sure \in [panel.views -> SUBSET Writes]

Init ==
    /\ panel \in Panels /\ sel = NoKey
    /\ entry = [k \in panel.views |-> NoEntry]
    /\ write = [w \in Writes |-> NoWrite]
    /\ faults = 0
    /\ sure = [k \in panel.views |-> {}]

Unused == {w \in Writes : write[w].stage = "none"}
NextWrite == CHOOSE w \in Unused : TRUE
Op(w) == panel.ops[write[w].op]
Pending == {w \in Writes : write[w].stage \in {"sent", "done", "refused"}}
Done(k) == {w \in Writes : write[w].stage \in {"done", "told", "silent", "news"} /\ k \in write[w].keys}

-----------------------------------------------------------------------------
(* One query of the cache.                                                  *)

Begun(e) == [e EXCEPT !.fetch = "sent", !.read = {}, !.failed = FALSE]

(* invalidateQueries: a query on screen is fetched again, and a fetch under  *)
(* way is restarted if there are data already.  The first load goes on, and *)
(* so does the fetch of a query that nobody observes; either answer makes   *)
(* the query fresh.                                                         *)
Restarts(e) == e.fetch = "idle" \/ e.held

Invalidated(e) ==
    IF e.shown /\ Restarts(e) THEN Begun([e EXCEPT !.fresh = FALSE])
    ELSE [e EXCEPT !.fresh = FALSE]

(* setQueryData passes for an answer: data that were invalid or whose fetch  *)
(* had failed are fresh, and a fetch under way is not touched.              *)
Written(e, has) == [e EXCEPT !.held = TRUE, !.has = has, !.fresh = TRUE,
                             !.failed = FALSE]

(* Mounting a component: no data and invalidated data are fetched, fresh     *)
(* data only when they are older than their staleTime.                      *)
Observed(e) ==
    {IF e.fetch = "idle" THEN Begun([e EXCEPT !.shown = TRUE]) ELSE [e EXCEPT !.shown = TRUE]}
    \union (IF e.held /\ e.fresh THEN {[e EXCEPT !.shown = TRUE]} ELSE {})

-----------------------------------------------------------------------------
(* What the person does.                                                    *)

(* A page, tab or dialog opens or closes.                                   *)
Show(k) ==
    /\ ~entry[k].shown /\ k \notin panel.family
    /\ \E e \in Observed(entry[k]) : entry' = [entry EXCEPT ![k] = e]
    /\ UNCHANGED <<panel, sel, write, faults>>

Hide(k) ==
    /\ entry[k].shown /\ k \notin panel.family
    /\ entry' = [entry EXCEPT ![k].shown = FALSE]
    /\ UNCHANGED <<panel, sel, write, faults>>

(* Another member of the family.                                            *)
Select(k) ==
    /\ k \in panel.family \ {sel}
    /\ sel' = k
    /\ \E e \in Observed(entry[k]) :
          entry' = [j \in panel.views |->
                      IF j = k THEN e ELSE [entry[j] EXCEPT !.shown = @ /\ j # sel]]
    /\ UNCHANGED <<panel, write, faults>>

Chosen(o) == IF o.keyed THEN {sel} ELSE {}
UnderWay(n) == \E w \in Pending : write[w].op = n
Loaded(k) == entry[k].held

Mutate(n) ==
    LET o == panel.ops[n] IN
    /\ o.keyed => sel # NoKey
    /\ \A k \in o.gate : Loaded(k)
    /\ o.single => ~UnderWay(n)
    /\ Unused # {}
    /\ write' = [write EXCEPT ![NextWrite] =
          [op |-> n, keys |-> o.affects \union Chosen(o), stage |-> "sent",
           prev |-> IF o.optimistic THEN entry[sel].has ELSE {}]]
    /\ entry' = IF o.optimistic
                THEN [entry EXCEPT ![sel] =
                        [Written(@, @.has \union {NextWrite}) EXCEPT !.fetch = "idle", !.read = {}]]
                ELSE entry
    /\ UNCHANGED <<panel, sel, faults>>

-----------------------------------------------------------------------------
(* The server.                                                              *)

Apply(w) ==
    /\ write[w].stage \in {"sent", "unsure"}
    /\ write' = [write EXCEPT ![w].stage = IF @ = "sent" THEN "done" ELSE "silent"]
    /\ UNCHANGED <<panel, sel, entry, faults>>

Refuse(w) ==
    /\ write[w].stage = "sent"
    /\ write' = [write EXCEPT ![w].stage = "refused"]
    /\ UNCHANGED <<panel, sel, entry, faults>>

(* Somebody else changes what a view shows.                                 *)
Foreign(k) ==
    /\ Unused # {}
    /\ write' = [write EXCEPT ![NextWrite] = [NoWrite EXCEPT !.keys = {k}, !.stage = "news"]]
    /\ UNCHANGED <<panel, sel, entry, faults>>

Read(k) ==
    /\ entry[k].fetch = "sent"
    /\ entry' = [entry EXCEPT ![k].fetch = "read", ![k].read = Done(k)]
    /\ UNCHANGED <<panel, sel, write, faults>>

-----------------------------------------------------------------------------
(* What the page does with an answer.                                       *)

(* The callbacks of a request: the views in inv are invalidated.  Its        *)
(* options are those of the last render, so of the member selected by now,  *)
(* which need not be the one the request was sent for.                      *)
Settle(cache, inv) ==
    entry' = [k \in panel.views |-> IF k \in inv THEN Invalidated(cache[k]) ELSE cache[k]]

RefetchedMember(o) == IF o.keyed THEN {sel} ELSE {}  \* mutant
Refetched(o) == o.refetches \union (IF o.keyed THEN {sel} ELSE {})

Answer(w) ==
    LET o == Op(w)
        cache == [k \in panel.views |-> IF k \in o.sets
                                        THEN Written(entry[k], entry[k].has \union {w})
                                        ELSE entry[k]] IN
    /\ write[w].stage = "done"
    /\ write' = [write EXCEPT ![w].stage = "told"]
    /\ Settle(cache, Refetched(o))
    /\ UNCHANGED <<panel, sel, faults>>

(* An error puts back what an optimistic request had found, into the member  *)
(* selected by now.                                                         *)
RolledBack(w) ==
    IF Op(w).optimistic THEN [entry EXCEPT ![sel] = Written(@, write[w].prev)] ELSE entry

FailsUnsettled(w) == entry' = RolledBack(w)  \* mutant
Fails(w) ==
    IF Op(w).settled THEN Settle(RolledBack(w), Refetched(Op(w)))
    ELSE entry' = RolledBack(w)

Error(w) ==
    /\ write[w].stage = "refused"
    /\ write' = [write EXCEPT ![w] = [NoWrite EXCEPT !.stage = "failed"]]
    /\ Fails(w)
    /\ UNCHANGED <<panel, sel, faults>>

(* No answer in time: an error to the page, whatever the server does.       *)
GiveUp(w) ==
    /\ write[w].stage \in {"sent", "done"} /\ faults < MaxFaults
    /\ write' = [write EXCEPT ![w].stage = IF @ = "sent" THEN "unsure" ELSE "silent"]
    /\ faults' = faults + 1
    /\ Fails(w)
    /\ UNCHANGED <<panel, sel>>

Land(k) ==
    /\ entry[k].fetch = "read"
    /\ entry' = [entry EXCEPT ![k].fetch = "idle", ![k].read = {}, ![k].held = TRUE,
                              ![k].has = entry[k].read, ![k].fresh = TRUE]
    /\ UNCHANGED <<panel, sel, write, faults>>

(* The last retry has failed; what is shown stays.                          *)
FetchFails(k) ==
    /\ entry[k].fetch # "idle" /\ faults < MaxFaults
    /\ entry' = [entry EXCEPT ![k].fetch = "idle", ![k].read = {}, ![k].failed = TRUE]
    /\ faults' = faults + 1
    /\ UNCHANGED <<panel, sel, write>>

-----------------------------------------------------------------------------
(* Fetches nobody asked for.                                                *)

MayFetch(k) == entry[k].shown /\ entry[k].fetch = "idle"

Refresh(k) ==
    /\ MayFetch(k)
    /\ entry' = [entry EXCEPT ![k] = Begun(@)]
    /\ UNCHANGED <<panel, sel, write, faults>>

OnlyFailed(k) == entry[k].failed  \* mutant
Behind(k) == entry[k].failed \/ entry[k].has # Done(k)

(* The interval of a polled query; a poll that finds nothing new is left out.*)
Poll(k) == k \in panel.polled /\ Behind(k) /\ Refresh(k)

(* The window gets the focus and the data are stale.                        *)
Focus(k) == k \notin panel.polled /\ Refresh(k)

(* The event of a change, which may as well never arrive.                   *)
Poke(w) ==
    /\ write[w].stage = "news"
    /\ write' = [write EXCEPT ![w].stage = "silent"]
    /\ entry' = [k \in panel.views |-> IF k \in panel.live \intersect write[w].keys
                                       THEN Invalidated(entry[k]) ELSE entry[k]]
    /\ UNCHANGED <<panel, sel, faults>>

-----------------------------------------------------------------------------
Steps ==
    \/ \E k \in panel.views : \/ Show(k) \/ Hide(k) \/ Select(k)
                              \/ Foreign(k) \/ Read(k) \/ Land(k) \/ FetchFails(k)
                              \/ Poll(k) \/ Focus(k)
    \/ \E n \in DOMAIN panel.ops : Mutate(n)
    \/ \E w \in Writes : Apply(w) \/ Refuse(w) \/ Answer(w) \/ Error(w) \/ GiveUp(w)
                          \/ Poke(w)

(* What a person may count on in a view, noted for the properties: the       *)
(* outcome of every request that the page had heard of before the server    *)
(* answered the last fetch of it, or has heard of since, while no fetch was *)
(* under way; of a family only in the member on screen, and not of what the *)
(* request forgets.  A fetch that fails or is cancelled takes it all back.  *)
Heard == {w \in Writes : write[w].stage \in {"told", "failed", "unsure"}}
Reaches(w, k) == k \notin Op(w).forgets /\ (k \in panel.family => entry[k].shown)
Lost(k) == entry[k].fetch = "sent" \/ entry[k].read # entry'[k].has
Noted ==
    sure' = [k \in panel.views |->
        CASE entry'[k].fetch = "sent" -> Heard'
          [] entry'[k].fetch # "sent" /\ entry[k].fetch = "idle" ->
               sure[k] \union {w \in Heard' \ Heard : Reaches(w, k)}
          [] entry'[k].fetch = "idle" /\ entry[k].fetch # "idle" /\ Lost(k) -> {}
          [] OTHER -> sure[k]]

Next == Steps /\ Noted

Spec == Init /\ [][Next]_vars

(* The server answers a fetch, the answer lands, intervals fire (the window  *)
(* is visible).                                                             *)
Tend(k) == k \in panel.views /\ (Read(k) \/ Land(k) \/ Poll(k)) /\ Noted
AllViews == UNION {p.views : p \in Panels}
Fairness == \A k \in AllViews : WF_vars(Tend(k))
FairSpec == Spec /\ Fairness

-----------------------------------------------------------------------------
Rests(k) == entry[k].shown /\ entry[k].fetch = "idle"
Unmade(w) == write[w].stage \in {"failed", "unsure"}

(* A view at rest shows every change the panel was told is made before the   *)
(* last fetch of it or since, whichever fetches, refetches and other        *)
(* changes it has raced; told while the view was closed, it shows them when *)
(* it is opened again.                                                      *)
OwnWritesShown ==
    \A k \in panel.views : \A w \in sure[k] :
        Rests(k) /\ write[w].stage = "told" /\ k \in write[w].keys => w \in entry[k].has

(* The same of every change the panel was ever told is made.                 *)
(* It does not hold: a first load, or the fetch of a closed view, goes on    *)
(* after an invalidation with what it has read before; an answer written    *)
(* into a list is overwritten by a fetch that was under way; another member *)
(* of a family is invalidated when another has been selected since; and     *)
(* some requests forget a view.                                             *)
OwnWritesShownAtOnce ==
    \A k \in panel.views, w \in Writes :
        Rests(k) /\ write[w].stage = "told" /\ k \in write[w].keys => w \in entry[k].has

(* A view at rest shows no change the panel knows has failed since the last  *)
(* fetch of it: the guess of such a request is gone, also when two          *)
(* overlapped and the one put back what it had found of the other.          *)
NoPhantom ==
    \A k \in panel.views : \A w \in sure[k] : Rests(k) /\ Unmade(w) => w \notin entry[k].has

(* The same of every change that has failed.                                 *)
(* It does not hold: when another conversation has been selected before the  *)
(* error, that one is put back and fetched again, and the guess stays in    *)
(* the one it was written for until it is fetched again.                    *)
NoPhantomAtOnce ==
    \A k \in panel.views, w \in Writes : Rests(k) /\ Unmade(w) => w \notin entry[k].has

(* A polled view on screen shows every change in the end, own or not, also   *)
(* those whose answer or event was lost, and no guess that has failed.      *)
Lags(w) == \E k \in panel.polled :
    entry[k].shown /\ (w \in Done(k) \ entry[k].has \/ w \in entry[k].has \ (Done(k) \union Pending))
PolledCatchesUp == \A w \in Writes : Lags(w) ~> ~Lags(w)
=============================================================================
