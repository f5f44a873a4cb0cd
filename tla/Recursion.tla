------------------------------ MODULE Recursion ------------------------------
(***************************************************************************)
(* The recursive crawl of src/recursion.rs with the stop reason of          *)
(* src/termination.rs: generations of targets dispatched in waves of at     *)
(* most MAX_BATCH, what they find queued for the next generation, under a   *)
(* depth, dispatch, entity and frontier bound, while the operator may ask   *)
(* to stop at any moment.                                                   *)
(*                                                                         *)
(* A collector is external: it lets a target join a wave or not, returns    *)
(* any entities and may return too few or too many results.  Selectors and  *)
(* routing are abstracted to Expands, the targets an entity is followed by; *)
(* confidences, lineage edges and outcome texts are left out.               *)
(***************************************************************************)
EXTENDS Naturals, FiniteSets, SequencesExt

CONSTANTS
    Targets, Kind,                \* lookups and the kind of each
    Entities, Expands,            \* findings and the targets each is followed by, in order
    EchoOf,                       \* targets whose own lookup echoes them, as which entity
    Seeds,                        \* the seed lists a crawl may be given
    MaxFound,                     \* bound: entities one lookup returns
    MAX_BATCH,
    max_generations, max_dispatches, max_entities, max_frontier_per_generation

ASSUME CrawlParameters ==
    /\ IsFiniteSet(Targets) /\ IsFiniteSet(Entities)
    /\ Expands \in [Entities -> Seq(Targets)]
    /\ DOMAIN Kind = Targets
    /\ \A t \in DOMAIN EchoOf : t \in Targets /\ EchoOf[t] \in Entities
    /\ \A s \in Seeds : s \in Seq(Targets)
    /\ MAX_BATCH \in Nat \ {0}
    /\ {MaxFound, max_generations, max_dispatches, max_entities,
        max_frontier_per_generation} \subseteq Nat

VARIABLES
    pc,                \* where the crawl is
    generation,
    queue,             \* `remaining` of this generation
    next,              \* the next generation's Frontier
    batch,             \* the wave: chosen and not yet reduced
    returned,          \* results the collector returned for it
    stopped,           \* a bound or a stop ended this generation
    visited,
    merged, fresh,     \* entities: merged by uid, and of this generation, not merged yet
    dispatches,
    resource_limited, cancelled, max_depth,
    outcomes,          \* what each dispatched target came to
    termination,
    asked,             \* collector.cancelled(): the operator asked to stop
    saved,             \* targets whose results the last progressed() call saw
    wanted,            \* history: targets seeded or found
    refused            \* history: targets the frontier had no room for

bounds == <<resource_limited, cancelled, max_depth>>
found == <<merged, fresh>>
history == <<wanted, refused>>
vars == <<pc, generation, queue, next, batch, returned, stopped, visited, found, dispatches,
          bounds, outcomes, termination, asked, saved, history>>

Dispatched == DOMAIN outcomes

Reasons == {"none", "FixedPoint", "MaxDepth", "ResourceLimit", "Cancelled"}

TypeOK ==
    /\ pc \in {"generation", "take", "fill", "reduce", "after", "done"}
    /\ generation \in 0..max_generations + 1
    /\ {queue, next, batch} \subseteq Seq(Targets)
    /\ IsInjective(next) /\ IsInjective(batch) /\ Len(batch) <= MAX_BATCH
    /\ returned \in 0..MAX_BATCH + 1
    /\ stopped \in BOOLEAN
    /\ visited \subseteq Targets
    /\ merged \subseteq Entities /\ fresh \in Seq(Entities)
    /\ dispatches \in Nat
    /\ resource_limited \in BOOLEAN /\ cancelled \in BOOLEAN /\ max_depth \in BOOLEAN
    /\ Dispatched \subseteq Targets /\ Range(outcomes) \subseteq {"returned", "inconclusive"}
    /\ termination \in Reasons
    /\ asked \in BOOLEAN
    /\ saved \subseteq Targets /\ wanted \subseteq Targets /\ refused \subseteq wanted

-----------------------------------------------------------------------------
(* Frontier. *)

\* A loop over s that carries a value; step[e] is what it does to the value at e.
Fold(step, start, s) ==
    LET carried[n \in 0..Len(s)] == IF n = 0 THEN start ELSE step[s[n]][carried[n - 1]]
    IN  carried[Len(s)]

\* push: one place for each key.
Push(q, t) == IF Contains(q, t) THEN q ELSE Append(q, t)

\* The targets of ts pushed in their order.
PushAll(q, ts) == Fold([t \in Targets |-> [r \in Seq(Targets) |-> Push(r, t)]], q, ts)

Half(cap) == IF cap <= 1 THEN 1 ELSE (cap + 1) \div 2

\* Targets of kind k among the first n of q.
OfKind(q, n, k) == Cardinality({i \in 1..n : Kind[q[i]] = k})

\* full_for: the generation is full, or the kind holds half of it.
FullFor(q, t) ==
    \/ Len(q) >= max_frontier_per_generation
    \/ OfKind(q, Len(q), Kind[t]) >= Half(max_frontier_per_generation)

\* by_kind and order of into_queue: the round in which q[i] is taken, and the place its
\* kind first appears at.
Round(q, i) == OfKind(q, i, Kind[q[i]])

First(q, i) ==
    CHOOSE j \in 1..i : /\ Kind[q[j]] = Kind[q[i]]
                        /\ \A k \in 1..(j - 1) : Kind[q[k]] # Kind[q[i]]

\* q[i] is q[j] or goes before it.
Before(q, i, j) ==
    \/ Round(q, i) < Round(q, j)
    \/ Round(q, i) = Round(q, j) /\ First(q, i) <= First(q, j)

Place(q, j) == Cardinality({i \in 1..Len(q) : Before(q, i, j)})

\* A defect: the queue keeps the order in which its targets were found.
MutIntoQueue(q) == q

\* into_queue: a target of each kind in turn, kinds in the order they first appear.
IntoQueue(q) == [n \in 1..Len(q) |-> q[CHOOSE j \in 1..Len(q) : Place(q, j) = n]]

Init ==
    /\ \E seeds \in Seeds :
        /\ queue = IntoQueue(PushAll(<<>>, seeds))
        /\ wanted = ToSet(seeds) /\ refused = {}
    /\ pc = "generation" /\ generation = 0
    /\ next = <<>> /\ batch = <<>> /\ returned = 0
    /\ stopped = FALSE /\ visited = {}
    /\ merged = {} /\ fresh = <<>>
    /\ dispatches = 0
    /\ resource_limited = FALSE /\ cancelled = FALSE /\ max_depth = FALSE
    /\ outcomes = <<>>
    /\ termination = "none"
    /\ asked = FALSE /\ saved = {}

-----------------------------------------------------------------------------
(* crawl: the loop over generations. *)

Begin ==
    /\ pc = "generation" /\ queue # <<>> /\ ~stopped /\ generation <= max_generations
    /\ pc' = "take"
    /\ UNCHANGED <<generation, queue, next, batch, returned, stopped, visited, found,
                   dispatches, bounds, outcomes, termination, asked, saved, history>>

\* decide_termination: cancelled wins, then an empty frontier, then the bounds.
Decide(left, depth) ==
    IF cancelled THEN "Cancelled"
    ELSE IF left = <<>> THEN "FixedPoint"
    ELSE IF resource_limited THEN "ResourceLimit"
    ELSE IF depth THEN "MaxDepth"
    ELSE "FixedPoint"

\* The frontier is empty, a stop ended the last generation, or the depth is reached.
Finish ==
    /\ pc = "generation"
    /\ queue = <<>> \/ stopped \/ generation > max_generations
    /\ max_depth' = (queue # <<>> /\ ~stopped)
    /\ termination' = Decide(queue, max_depth')
    /\ pc' = "done"
    /\ UNCHANGED <<generation, queue, next, batch, returned, stopped, visited, found,
                   dispatches, resource_limited, cancelled, outcomes, asked, saved, history>>

-----------------------------------------------------------------------------
(* CrawlState::step: one generation. *)

\* What is left of this generation goes on in the next frontier.
KeepRest(ts) ==
    /\ next' = PushAll(next, ts)
    /\ queue' = <<>>
    /\ stopped' = TRUE

Kept == Cardinality(merged) + Len(fresh)

\* Nothing more may be dispatched, `chosen` targets of the wave counted.
Spent(chosen) == dispatches + chosen >= max_dispatches \/ Kept >= max_entities

\* The stop is looked at before each target.
TakeCancelled ==
    /\ pc = "take" /\ queue # <<>> /\ asked
    /\ cancelled' = TRUE
    /\ KeepRest(queue)
    /\ UNCHANGED <<pc, generation, batch, returned, visited, found, dispatches,
                   resource_limited, max_depth, outcomes, termination, asked, saved, history>>

\* A target dispatched before is passed over.
TakeVisited ==
    /\ pc = "take" /\ queue # <<>> /\ ~asked /\ Head(queue) \in visited
    /\ queue' = Tail(queue)
    /\ UNCHANGED <<pc, generation, next, batch, returned, stopped, visited, found, dispatches,
                   bounds, outcomes, termination, asked, saved, history>>

\* A budget is spent; the target was marked visited and is kept all the same.
TakeSpent ==
    /\ pc = "take" /\ queue # <<>> /\ ~asked /\ Head(queue) \notin visited /\ Spent(0)
    /\ visited' = visited \cup {Head(queue)}
    /\ resource_limited' = TRUE
    /\ KeepRest(queue)
    /\ UNCHANGED <<pc, generation, batch, returned, found, dispatches, cancelled, max_depth,
                   outcomes, termination, asked, saved, history>>

\* A defect: a wave is started without a look at the stop.
MutTake ==
    /\ pc = "take" /\ queue # <<>> /\ Head(queue) \notin visited /\ ~Spent(0)
    /\ visited' = visited \cup {Head(queue)}
    /\ batch' = <<Head(queue)>>
    /\ queue' = Tail(queue)
    /\ pc' = "fill"
    /\ UNCHANGED <<generation, next, returned, stopped, found, dispatches, bounds, outcomes,
                   termination, asked, saved, history>>

Take ==
    /\ pc = "take" /\ queue # <<>> /\ ~asked /\ Head(queue) \notin visited /\ ~Spent(0)
    /\ visited' = visited \cup {Head(queue)}
    /\ batch' = <<Head(queue)>>
    /\ queue' = Tail(queue)
    /\ pc' = "fill"
    /\ UNCHANGED <<generation, next, returned, stopped, found, dispatches, bounds, outcomes,
                   termination, asked, saved, history>>

\* The wave has room and the collector lets the next target join it (may_batch).
Joins == pc = "fill" /\ ~stopped /\ queue # <<>> /\ Len(batch) < MAX_BATCH

FillCancelled ==
    /\ Joins /\ asked
    /\ cancelled' = TRUE
    /\ KeepRest(queue)
    /\ UNCHANGED <<pc, generation, batch, returned, visited, found, dispatches,
                   resource_limited, max_depth, outcomes, termination, asked, saved, history>>

FillVisited ==
    /\ Joins /\ ~asked /\ Head(queue) \in visited
    /\ queue' = Tail(queue)
    /\ UNCHANGED <<pc, generation, next, batch, returned, stopped, visited, found, dispatches,
                   bounds, outcomes, termination, asked, saved, history>>

FillSpent ==
    /\ Joins /\ ~asked /\ Head(queue) \notin visited /\ Spent(Len(batch))
    /\ visited' = visited \cup {Head(queue)}
    /\ resource_limited' = TRUE
    /\ KeepRest(queue)
    /\ UNCHANGED <<pc, generation, batch, returned, found, dispatches, cancelled, max_depth,
                   outcomes, termination, asked, saved, history>>

\* A defect: the targets already in the wave are not counted against the budget.
MutFill ==
    /\ Joins /\ ~asked /\ Head(queue) \notin visited /\ ~Spent(0)
    /\ visited' = visited \cup {Head(queue)}
    /\ batch' = Append(batch, Head(queue))
    /\ queue' = Tail(queue)
    /\ UNCHANGED <<pc, generation, next, returned, stopped, found, dispatches, bounds, outcomes,
                   termination, asked, saved, history>>

Fill ==
    /\ Joins /\ ~asked /\ Head(queue) \notin visited /\ ~Spent(Len(batch))
    /\ visited' = visited \cup {Head(queue)}
    /\ batch' = Append(batch, Head(queue))
    /\ queue' = Tail(queue)
    /\ UNCHANGED <<pc, generation, next, returned, stopped, found, dispatches, bounds, outcomes,
                   termination, asked, saved, history>>

\* The wave is full, nothing is left, or the collector lets no more join: it is
\* collected, and the collector returns too few results, one for each, or too many.
Collect ==
    /\ pc = "fill"
    /\ returned' \in 0..(Len(batch) + 1)
    /\ pc' = "reduce"
    /\ UNCHANGED <<generation, queue, next, batch, stopped, visited, found, dispatches, bounds,
                   outcomes, termination, asked, saved, history>>

\* What take_step changes as it goes over the entities.
Taken == [next : Seq(Targets), fresh : Seq(Entities), limited : BOOLEAN,
          refused : SUBSET Targets, wanted : SUBSET Targets]

\* queue_expansions, one candidate: dispatched or queued already, no room, or queued.
QueueExpansion(taken, t) ==
    LET seen == [taken EXCEPT !.wanted = @ \cup {t}]
    IN  IF t \in visited \/ Contains(taken.next, t) THEN seen
        ELSE IF FullFor(taken.next, t)
             THEN [seen EXCEPT !.limited = TRUE, !.refused = @ \cup {t}]
        ELSE [seen EXCEPT !.next = Append(@, t)]

\* The echo of a pivot, forget_pivot_echo, is not kept; the echo of a seed is.
KeepEntity(t, e) == generation > 0 /\ t \in DOMAIN EchoOf => EchoOf[t] # e

\* One entity of t's: its candidates are queued, then it is kept.
TakeEntity(taken, e, t) ==
    LET queue_one == [u \in Targets |-> [r \in Taken |-> QueueExpansion(r, u)]]
        queued == Fold(queue_one, taken, Expands[e])
    IN  IF KeepEntity(t, e) THEN [queued EXCEPT !.fresh = Append(@, e)] ELSE queued

\* The results of normalize_batch: a target the collector left out finds nothing, and
\* is inconclusive; so is the last of the wave when there were too many.
Outcome ==
    IF returned = 0 \/ (Len(batch) = 1 /\ returned > 1) THEN "inconclusive" ELSE "returned"

\* take_step of the wave's next target.
Reduce(t, entities) ==
    /\ pc = "reduce" /\ batch # <<>> /\ t = Head(batch)
    /\ returned = 0 => entities = <<>>
    /\ LET start == [next |-> next, fresh |-> fresh, limited |-> resource_limited,
                     refused |-> refused, wanted |-> wanted]
           take_one == [e \in Entities |-> [r \in Taken |-> TakeEntity(r, e, t)]]
           taken == Fold(take_one, start, entities)
       IN  /\ next' = taken.next /\ fresh' = taken.fresh
           /\ resource_limited' = taken.limited
           /\ refused' = taken.refused /\ wanted' = taken.wanted
    /\ dispatches' = dispatches + 1
    /\ outcomes' = [u \in Dispatched \cup {t} |-> IF u = t THEN Outcome ELSE outcomes[u]]
    /\ batch' = Tail(batch)
    /\ returned' = IF returned = 0 THEN 0 ELSE returned - 1
    /\ UNCHANGED <<pc, generation, queue, stopped, visited, merged, cancelled, max_depth,
                   termination, asked, saved>>

Reduced ==
    /\ pc = "reduce" /\ batch = <<>>
    /\ pc' = "after" /\ returned' = 0
    /\ UNCHANGED <<generation, queue, next, batch, stopped, visited, found, dispatches, bounds,
                   outcomes, termination, asked, saved, history>>

\* A defect: a stop is seen only where another lookup is to follow.
MutUnrecorded ==
    /\ pc = "after"
    /\ pc' = "take"
    /\ saved' = Dispatched
    /\ UNCHANGED <<generation, queue, next, batch, returned, stopped, visited, found, dispatches,
                   bounds, outcomes, termination, asked, history>>

\* A defect: the targets left after a stop are not kept.
MutRest ==
    /\ pc = "after"
    /\ pc' = "take"
    /\ saved' = Dispatched
    /\ cancelled' = (cancelled \/ asked)
    /\ stopped' = (stopped \/ asked)
    /\ queue' = IF asked THEN <<>> ELSE queue
    /\ UNCHANGED <<generation, next, batch, returned, visited, found, dispatches,
                   resource_limited, max_depth, outcomes, termination, asked, history>>

\* batch_done: progressed() sees what the crawl holds, then a stop asked meanwhile.
BatchDone ==
    /\ pc = "after"
    /\ pc' = "take"
    /\ saved' = Dispatched
    /\ cancelled' = (cancelled \/ asked)
    /\ IF asked THEN KeepRest(queue) ELSE UNCHANGED <<next, queue, stopped>>
    /\ UNCHANGED <<generation, batch, returned, visited, found, dispatches, resource_limited,
                   max_depth, outcomes, termination, asked, history>>

\* merge_by_uid, and the next frontier in its order of dispatch.
EndGeneration ==
    /\ pc = "take" /\ (queue = <<>> \/ stopped)
    /\ merged' = merged \cup ToSet(fresh) /\ fresh' = <<>>
    /\ queue' = IntoQueue(next) /\ next' = <<>>
    /\ generation' = generation + 1
    /\ pc' = "generation"
    /\ UNCHANGED <<batch, returned, stopped, visited, dispatches, bounds, outcomes, termination,
                   asked, saved, history>>

\* The operator asks for a stop, whatever the crawl is at.
AskStop ==
    /\ ~asked /\ pc # "done"
    /\ asked' = TRUE
    /\ UNCHANGED <<pc, generation, queue, next, batch, returned, stopped, visited, found,
                   dispatches, bounds, outcomes, termination, saved, history>>

-----------------------------------------------------------------------------

Answers == UNION {[1..n -> Entities] : n \in 0..MaxFound}

Crawls ==
    \/ Begin \/ Finish
    \/ TakeCancelled \/ TakeVisited \/ TakeSpent \/ Take
    \/ FillCancelled \/ FillVisited \/ FillSpent \/ Fill
    \/ Collect \/ Reduced \/ BatchDone \/ EndGeneration
    \/ \E t \in Targets, entities \in Answers : Reduce(t, entities)

Next == Crawls \/ AskStop

\* The crawl is one thread that runs on: every lookup returns, by its own deadline.
Spec == Init /\ [][Next]_vars /\ WF_vars(Crawls)

-----------------------------------------------------------------------------
(* Properties. *)

\* "at most one lookup per (kind, selector identity)": a target found again, while it is
\* in the wave, queued, or dispatched earlier, costs no second lookup.
OncePerTarget == dispatches = Cardinality(Dispatched)

\* max_dispatches bounds the lookups of the whole crawl, waves included.
DispatchesBounded == dispatches + Len(batch) <= max_dispatches

\* When the crawl ends, by whichever bound or stop, every target it was given or found
\* was dispatched, is in the frontier it reports as left, or was refused for want of
\* room; a report that is not truncated leaves nothing.
NothingLost ==
    pc = "done" =>
        /\ wanted \subseteq Dispatched \cup ToSet(queue) \cup refused
        /\ ~(resource_limited \/ max_depth \/ cancelled) => wanted = Dispatched

\* No lookup starts after the operator asked for a stop, but those of the wave already
\* chosen.
NoneAfterStop == [][asked => visited' = visited]_vars

\* A stop asked while a wave is under way is "Cancelled, keeping everything found so
\* far", also when no further dispatch remains and the frontier is empty.
StopReported == (asked /\ pc \in {"fill", "reduce", "after"}) ~> (termination = "Cancelled")

\* "a process that dies mid-crawl loses at most the wave in flight": what was reduced
\* and not yet seen by progressed() is of one wave, and nothing once the wave is over.
LossBounded ==
    /\ Cardinality(Dispatched \ saved) <= MAX_BATCH
    /\ pc \in {"generation", "take", "fill", "done"} => saved = Dispatched

\* "One kind's flood then never crowds ... out of the next generation", and a budget that
\* stops a generation early has followed every kind: past the seeds no kind has more
\* than half of a frontier, and before a kind's next target every other had its turn.
KindsInTurn ==
    pc = "generation" /\ generation > 0 /\ ~stopped =>
        LET Count(n, k) == OfKind(queue, n, k)
            kinds == {Kind[queue[i]] : i \in DOMAIN queue}
        IN  /\ \A k \in kinds : Count(Len(queue), k) <= Half(max_frontier_per_generation)
            /\ \A n \in DOMAIN queue : \A k, l \in kinds :
                Count(n, k) < Count(Len(queue), k) => Count(n, l) <= Count(n, k) + 1

\* The types hold, and no lookup is made twice or past the budget.
DispatchesKept == TypeOK /\ OncePerTarget /\ DispatchesBounded

\* What was found is dispatched, reported as left or refused, and all of it but a wave
\* survives the process.
FindingsKept == NothingLost /\ LossBounded
=============================================================================
