------------------------- MODULE DeleteLoadingProofs -------------------------
(***************************************************************************)
(* Any number of tasks that share any delete files read them correctly, on  *)
(* one thread or on several, with any limit, whatever cannot be read and    *)
(* whenever the consumer goes away.                                         *)
(*                                                                         *)
(* The argument.  The state of a delete file in the filter leaves "absent"  *)
(* once, by the loader that becomes its owner, and is "loaded" only when    *)
(* the owner is through with it.  The owner merges the rows before it says  *)
(* so, so whoever finds the file loaded or is woken finds its rows merged.  *)
(* A reader asks for predicates only after its loader has been through all  *)
(* its delete files, so each of them has an owner by then.                  *)
(***************************************************************************)
EXTENDS DeleteLoading, FiniteSetTheorems, TLAPS

Places == {"todo", "looked", "waiting", "started", "owner", "merged", "done", "dropped"}
FilterStates == {"absent", "started", "loading", "loaded"}

(* A reader whose loader has ended well. *)
Loaded == {"predicates", "looked", "waiting", "woken", "missing", "done"}

Types ==
    /\ read \in Reads
    /\ filter \in [Deletes -> FilterStates] /\ parsed \subseteq Deletes
    /\ at \in [Tasks -> [Deletes -> Places]]
    /\ loader \in [Tasks -> {"idle", "running", "failed", "loaded"}]
    /\ reader \in [Tasks -> {"idle", "opening", "deletes", "dropped"} \cup Loaded]
    /\ notifier \in [Tasks -> FilterStates]
    /\ predicates \in [Tasks -> SUBSET Deletes]
    /\ applied \in [Tasks -> SUBSET Deletes]

Owns(f, d) == at[f][d] \in {"started", "owner", "merged"}

(* Who is loading a delete file, and what the filter says of it. *)
Owners ==
    \A d \in Deletes :
        /\ \A f, g \in Tasks : Owns(f, d) /\ Owns(g, d) => f = g
        /\ filter[d] \in {"absent", "loaded"} \/ d \in parsed => \A f \in Tasks : ~Owns(f, d)
        /\ filter[d] = "absent" => \A f \in Tasks : at[f][d] = "todo"
        /\ d \in parsed => ~Pos(d) /\ filter[d] # "absent"
        /\ Pos(d) => filter[d] # "started"
        /\ \A f \in Tasks : at[f][d] \in {"looked", "waiting", "merged"} => Pos(d)

(* The rows of position deletes are in the delete vectors in time, and no   *)
(* others are.                                                              *)
Merged ==
    \A d \in Deletes :
        /\ Pos(d) /\ filter[d] = "loaded" => \A f \in read.rows[d] : <<d, f>> \in vectors
        /\ \A g \in Tasks :
              Pos(d) /\ at[g][d] \in {"merged", "done"}
                  => \A f \in read.rows[d] : <<d, f>> \in vectors
        /\ \A f \in Tasks : <<d, f>> \in vectors => Pos(d) /\ f \in read.rows[d]

(* What a reader relies on. *)
Readers ==
    \A f \in Tasks :
        /\ loader[f] = "loaded" => \A d \in Listed(f) : at[f][d] = "done"
        /\ reader[f] \in Loaded => loader[f] = "loaded"
        /\ reader[f] = "woken" => \A d \in Deletes : Wants(f, d) => filter[d] = "loaded"
        /\ reader[f] # "missing"
        /\ predicates[f] \subseteq {d \in Listed(f) : ~Pos(d)}

DInv == Types /\ Owners /\ Merged /\ Readers /\ ExactlyItsDeletes

-----------------------------------------------------------------------------
LEMMA ListedDeletes ==
    ASSUME read \in Reads, NEW f \in Tasks
    PROVE  /\ read.deletes[f] \in Seq(Deletes)
           /\ Listed(f) \subseteq Deletes
           /\ \A d \in Deletes : read.kind[d] \in {"pos", "eq"} /\ read.rows[d] \subseteq Tasks
<1>1. read.deletes[f] \in Seq(Deletes)
  BY ReadsAssumption DEF Tasks, Deletes
<1>2. \A d \in Deletes : read.kind[d] \in {"pos", "eq"} /\ read.rows[d] \subseteq Tasks
  BY ReadsAssumption DEF Tasks, Deletes
<1> QED
  BY <1>1, <1>2 DEF Listed

(* A reader wants one predicate at a time. *)
LEMMA WantsOne ==
    ASSUME read \in Reads, NEW f \in Tasks, NEW d, NEW e, Wants(f, d), Wants(f, e)
    PROVE  d = e
<1>1. read.deletes[f] \in Seq(Deletes)
  BY ListedDeletes
<1>2. PICK i \in DOMAIN read.deletes[f] :
        /\ read.deletes[f][i] = d /\ d \in Wanted(f)
        /\ \A k \in 1 .. i - 1 : read.deletes[f][k] \notin Wanted(f)
  BY DEF Wants
<1>3. PICK j \in DOMAIN read.deletes[f] :
        /\ read.deletes[f][j] = e /\ e \in Wanted(f)
        /\ \A k \in 1 .. j - 1 : read.deletes[f][k] \notin Wanted(f)
  BY DEF Wants
<1>4. i \in Nat \ {0} /\ j \in Nat \ {0}
  BY <1>1, <1>2, <1>3
<1> QED
  BY <1>2, <1>3, <1>4

LEMMA InitHasDInv == Init => DInv
<1> SUFFICES ASSUME Init PROVE DInv
  OBVIOUS
<1>1. Types
  BY DEF Init, Types, Places, FilterStates, Loaded
<1>2. Owners
  BY DEF Init, Owners, Owns
<1>3. Merged
  BY DEF Init, Merged
<1>4. Readers
  BY DEF Init, Readers, Loaded
<1>5. ExactlyItsDeletes
  BY DEF Init, ExactlyItsDeletes
<1> QED
  BY <1>1, <1>2, <1>3, <1>4, <1>5 DEF DInv
-----------------------------------------------------------------------------
(* Every step keeps the read. *)
LEMMA SameRead ==
    ASSUME [Next]_vars
    PROVE  /\ read' = read /\ Tasks' = Tasks /\ Deletes' = Deletes
           /\ \A d : Pos(d)' = Pos(d)
           /\ \A f : Listed(f)' = Listed(f)
<1>1. read' = read
  BY ZenonT(60) DEF Next, Progress, LoaderStep, ReaderStep, StartLoad, WaitForOwner,
     InsertEqualityDelete, ParsePosDel, FinishPosDelLoad, ParseEqDel, LoaderFails,
     LoaderEnds, StorePredicate, TakeTask, OpenParquetFile, AwaitDeletes, AskForPredicate,
     WaitForPredicate, TakePredicate, ReadDataFile, StreamEnds, DropStream, DropReaders, vars
<1> QED
  BY <1>1 DEF Tasks, Deletes, Pos, Listed

(* The steps of a loader, and of the task that stores a predicate, by what  *)
(* they do to the delete file d.                                            *)
LoadStep(f, d) ==
    \/ StartLoad(f, d) \/ WaitForOwner(f, d) \/ InsertEqualityDelete(f, d)
    \/ ParsePosDel(f, d) \/ FinishPosDelLoad(f, d) \/ ParseEqDel(f, d)

LEMMA LoadStepKeepsTypes ==
    ASSUME DInv, [Next]_vars, NEW f \in Tasks, NEW d \in Deletes, LoadStep(f, d)
    PROVE  Types'
<1> USE SameRead
<1>1. Types /\ Owners
  BY DEF DInv
<1>2. UNCHANGED <<loader, readerVars>>
  BY DEF LoadStep, StartLoad, WaitForOwner, InsertEqualityDelete, ParsePosDel,
     FinishPosDelLoad, ParseEqDel
<1>3. filter' \in [Deletes -> FilterStates]
  BY <1>1 DEF LoadStep, StartLoad, WaitForOwner, InsertEqualityDelete, ParsePosDel,
     FinishPosDelLoad, ParseEqDel, Mark, Types, FilterStates, filterVars
<1>4. parsed' \subseteq Deletes
  BY <1>1 DEF LoadStep, StartLoad, WaitForOwner, InsertEqualityDelete, ParsePosDel,
     FinishPosDelLoad, ParseEqDel, Types, filterVars
<1>5. at' \in [Tasks -> [Deletes -> Places]]
  <2>1. CASE StartLoad(f, d)
    <3>1. Pos(d) => filter[d] \in {"absent", "loading", "loaded"}
      BY <1>1 DEF Types, FilterStates, Owners
    <3>2. (IF Pos(d) THEN StartPosDelLoad(d) ELSE StartEqDelLoad(d)) \in Places
      BY <3>1 DEF StartPosDelLoad, StartEqDelLoad, Places
    <3> DEFINE place == IF Pos(d) THEN StartPosDelLoad(d) ELSE StartEqDelLoad(d)
    <3>3. at' = [at EXCEPT ![f][d] = place]
      BY <2>1 DEF StartLoad
    <3> HIDE DEF place
    <3> QED
      BY <1>1, <3>2, <3>3 DEF Types, place
  <2>2. CASE FinishPosDelLoad(f, d)
    BY <1>1, <2>2 DEF FinishPosDelLoad, WakeWaiters, Types, Places
  <2>3. CASE \/ WaitForOwner(f, d) \/ InsertEqualityDelete(f, d)
             \/ ParsePosDel(f, d) \/ ParseEqDel(f, d)
    <3>1. PICK place \in Places : at' = [at EXCEPT ![f][d] = place]
      BY <2>3 DEF WaitForOwner, InsertEqualityDelete, ParsePosDel, ParseEqDel, Places
    <3> QED
      BY <1>1, <3>1 DEF Types
  <2> QED
    BY <2>1, <2>2, <2>3 DEF LoadStep
<1> QED
  BY <1>1, <1>2, <1>3, <1>4, <1>5 DEF Types, readerVars

LEMMA LoadStepKeepsOwners ==
    ASSUME DInv, [Next]_vars, NEW f \in Tasks, NEW d \in Deletes, LoadStep(f, d)
    PROVE  Owners'
<1> USE SameRead
<1>1. Types /\ Owners
  BY DEF DInv
<1>2. CASE StartLoad(f, d)
  BY <1>1, <1>2 DEF StartLoad, StartPosDelLoad, StartEqDelLoad, Mark, Types, FilterStates,
     Places, Owners, Owns
<1>3. CASE WaitForOwner(f, d)
  BY <1>1, <1>3 DEF WaitForOwner, Types, Owners, Owns, filterVars
<1>4. CASE InsertEqualityDelete(f, d)
  BY <1>1, <1>4 DEF InsertEqualityDelete, Types, Owners, Owns
<1>5. CASE ParsePosDel(f, d)
  BY <1>1, <1>5 DEF ParsePosDel, Types, Owners, Owns
<1>6. CASE FinishPosDelLoad(f, d)
  BY <1>1, <1>6 DEF FinishPosDelLoad, WakeWaiters, Types, Owners, Owns
<1>7. CASE ParseEqDel(f, d)
  BY <1>1, <1>7 DEF ParseEqDel, Types, Owners, Owns
<1> QED
  BY <1>2, <1>3, <1>4, <1>5, <1>6, <1>7 DEF LoadStep

LEMMA LoadStepKeepsMerged ==
    ASSUME DInv, [Next]_vars, NEW f \in Tasks, NEW d \in Deletes, LoadStep(f, d)
    PROVE  Merged'
<1> USE SameRead
<1>1. Types /\ Owners /\ Merged
  BY DEF DInv
<1>2. \A e \in Deletes : read.rows[e] \subseteq Tasks
  BY <1>1, ListedDeletes DEF Types
<1>3. CASE StartLoad(f, d)
  <2> DEFINE place == IF Pos(d) THEN StartPosDelLoad(d) ELSE StartEqDelLoad(d)
  <2>1. at' = [at EXCEPT ![f][d] = place] /\ Mark(d, place) /\ vectors' = vectors
    BY <1>3 DEF StartLoad
  <2>2. Pos(d) => filter[d] \in {"absent", "loading", "loaded"}
    BY <1>1 DEF Types, FilterStates, Owners
  <2>3. place # "merged" /\ (Pos(d) /\ place = "done" => filter[d] = "loaded")
    BY <2>2 DEF StartPosDelLoad, StartEqDelLoad
  <2> HIDE DEF place
  <2>4. \A e \in Deletes : filter'[e] = "loaded" => filter[e] = "loaded"
    BY <1>1, <2>1 DEF Mark, Types
  <2> QED
    BY <1>1, <2>1, <2>3, <2>4 DEF Types, Merged
<1>4. CASE WaitForOwner(f, d)
  BY <1>1, <1>4 DEF WaitForOwner, Types, Merged, filterVars
<1>5. CASE InsertEqualityDelete(f, d)
  BY <1>1, <1>5 DEF InsertEqualityDelete, Types, Merged
<1>6. CASE ParsePosDel(f, d)
  BY <1>1, <1>2, <1>6 DEF ParsePosDel, UpsertDeleteVectors, Types, Merged
<1>7. CASE FinishPosDelLoad(f, d)
  BY <1>1, <1>2, <1>7 DEF FinishPosDelLoad, WakeWaiters, Types, Merged
<1>8. CASE ParseEqDel(f, d)
  BY <1>1, <1>8 DEF ParseEqDel, Types, Merged
<1> QED
  BY <1>3, <1>4, <1>5, <1>6, <1>7, <1>8 DEF LoadStep

LEMMA LoadStepKeepsReaders ==
    ASSUME DInv, [Next]_vars, NEW f \in Tasks, NEW d \in Deletes, LoadStep(f, d)
    PROVE  Readers' /\ ExactlyItsDeletes'
<1> USE SameRead
<1>1. Types /\ Owners /\ Readers /\ ExactlyItsDeletes
  BY DEF DInv
<1>2. UNCHANGED <<read, loader, readerVars>>
  BY DEF LoadStep, StartLoad, WaitForOwner, InsertEqualityDelete, ParsePosDel,
     FinishPosDelLoad, ParseEqDel
<1>3. \A g \in Tasks, e \in Deletes : at[g][e] = "done" => at'[g][e] = "done"
  BY <1>1 DEF LoadStep, StartLoad, WaitForOwner, InsertEqualityDelete, ParsePosDel,
     FinishPosDelLoad, ParseEqDel, WakeWaiters, IsNext, Types
<1>4. \A e \in Deletes : filter[e] = "loaded" => filter'[e] = "loaded"
  BY <1>1 DEF LoadStep, StartLoad, StartPosDelLoad, StartEqDelLoad, WaitForOwner,
     InsertEqualityDelete, ParsePosDel, FinishPosDelLoad, ParseEqDel, Mark, Owners, Owns,
     Types, FilterStates, filterVars
<1>5. \A g \in Tasks : Listed(g) \subseteq Deletes
  BY <1>1, ListedDeletes DEF Types
<1>6. \A g, e : Wants(g, e)' = Wants(g, e)
  BY <1>2 DEF Wants, Wanted, Listed, Pos, readerVars
<1>7. Readers'
  BY <1>1, <1>2, <1>3, <1>4, <1>5, <1>6 DEF Readers, readerVars
<1>8. ExactlyItsDeletes'
  BY <1>1, <1>2 DEF ExactlyItsDeletes, readerVars
<1> QED
  BY <1>7, <1>8
-----------------------------------------------------------------------------
(* The other steps of a loader change no state of the filter. *)
LEMMA LoaderFailsStep ==
    ASSUME DInv, [Next]_vars, NEW f \in Tasks, LoaderFails(f)
    PROVE  DInv'
<1> USE SameRead
<1>1. Types /\ Owners /\ Merged /\ Readers /\ ExactlyItsDeletes
  BY DEF DInv
<1>2. UNCHANGED <<read, filter, vectors, parsed, reader, notifier, predicates, applied>>
  BY DEF LoaderFails, filterVars, readerVars
<1>3. loader' = [loader EXCEPT ![f] = "failed"] /\ loader[f] = "running"
  BY DEF LoaderFails
<1>4. /\ at' \in [Tasks -> [Deletes -> Places]]
      /\ \A g \in Tasks, d \in Deletes :
            \/ at'[g][d] = at[g][d]
            \/ g = f /\ at[g][d] \in Active /\ at'[g][d] = "dropped"
  BY <1>1 DEF LoaderFails, Types, Places
<1>5. \A g \in Tasks : Listed(g) \subseteq Deletes
  BY <1>1, ListedDeletes DEF Types
<1>6. \A g, d : Wants(g, d)' = Wants(g, d)
  BY <1>2 DEF Wants, Wanted, Listed, Pos
<1>7. Types'
  BY <1>1, <1>2, <1>3, <1>4 DEF Types
<1>8. Owners'
  BY <1>1, <1>2, <1>4 DEF Owners, Owns, Active
<1>9. Merged'
  BY <1>1, <1>2, <1>4 DEF Merged
<1>10. Readers'
  BY <1>1, <1>2, <1>3, <1>4, <1>5, <1>6 DEF Readers, Types, Active
<1>11. ExactlyItsDeletes'
  BY <1>1, <1>2 DEF ExactlyItsDeletes
<1> QED
  BY <1>7, <1>8, <1>9, <1>10, <1>11 DEF DInv

LEMMA LoaderEndsStep ==
    ASSUME DInv, [Next]_vars, NEW f \in Tasks, LoaderEnds(f)
    PROVE  DInv'
<1> USE SameRead
<1>1. Types /\ Owners /\ Merged /\ Readers /\ ExactlyItsDeletes
  BY DEF DInv
<1>2. /\ UNCHANGED <<read, filter, vectors, parsed, at>>
      /\ UNCHANGED <<reader, notifier, predicates, applied>>
  BY DEF LoaderEnds, filterVars, readerVars
<1>3. loader' = [loader EXCEPT ![f] = "loaded"] /\ \A d \in Listed(f) : at[f][d] = "done"
  BY DEF LoaderEnds
<1>4. \A g, d : Wants(g, d)' = Wants(g, d)
  BY <1>2 DEF Wants, Wanted, Listed, Pos
<1>5. Types'
  BY <1>1, <1>2, <1>3 DEF Types
<1>6. Owners' /\ Merged' /\ ExactlyItsDeletes'
  BY <1>1, <1>2 DEF Owners, Owns, Merged, ExactlyItsDeletes
<1>7. Readers'
  BY <1>1, <1>2, <1>3, <1>4 DEF Readers, Types
<1> QED
  BY <1>5, <1>6, <1>7 DEF DInv

LEMMA StorePredicateStep ==
    ASSUME DInv, [Next]_vars, NEW d \in Deletes, StorePredicate(d)
    PROVE  DInv'
<1> USE SameRead
<1>1. Types /\ Owners /\ Merged /\ Readers /\ ExactlyItsDeletes
  BY DEF DInv
<1>2. UNCHANGED <<read, vectors, at, loader, notifier, predicates, applied>>
  BY DEF StorePredicate, loaderVars
<1>3. /\ d \in parsed /\ parsed' = parsed \ {d} /\ ~Pos(d)
      /\ filter' = [filter EXCEPT ![d] = "loaded"] /\ filter[d] # "absent"
  BY <1>1 DEF StorePredicate, Store, Owners
<1>4. reader' = [g \in Tasks |->
                    IF reader[g] = "waiting" /\ Wants(g, d) /\ notifier[g] = "loading"
                    THEN "woken" ELSE reader[g]]
  BY DEF StorePredicate
<1>5. \A g, e : Wants(g, e)' = Wants(g, e)
  BY <1>2 DEF Wants, Wanted, Listed, Pos
<1>6. Types'
  BY <1>1, <1>2, <1>3, <1>4 DEF Types, Loaded, FilterStates
<1>7. Owners'
  BY <1>1, <1>2, <1>3 DEF Owners, Owns, Types
<1>8. Merged'
  BY <1>1, <1>2, <1>3 DEF Merged, Types
<1>9. Readers'
  <2> SUFFICES ASSUME NEW g \in Tasks
               PROVE  /\ reader'[g] \in Loaded => loader[g] = "loaded"
                      /\ reader'[g] # "missing"
                      /\ reader'[g] = "woken" =>
                            \A e \in Deletes : Wants(g, e) => filter'[e] = "loaded"
    BY <1>1, <1>2, <1>5 DEF Readers
  <2>1. CASE reader'[g] = reader[g]
    BY <1>1, <1>3, <2>1 DEF Readers, Types
  <2>2. CASE reader[g] = "waiting" /\ Wants(g, d) /\ reader'[g] = "woken"
    <3>1. \A e \in Deletes : Wants(g, e) => e = d
      BY <1>1, <2>2, WantsOne DEF Types
    <3> QED
      BY <1>1, <1>3, <2>2, <3>1 DEF Readers, Types, Loaded
  <2> QED
    BY <1>4, <2>1, <2>2
<1>10. ExactlyItsDeletes'
  BY <1>1, <1>2, <1>4 DEF ExactlyItsDeletes
<1> QED
  BY <1>6, <1>7, <1>8, <1>9, <1>10 DEF DInv

-----------------------------------------------------------------------------
(* The steps of readers and of the consumer leave the filter alone. *)
LEMMA ReaderFrame ==
    ASSUME DInv, read' = read, UNCHANGED <<filterVars, at>>, Types', Readers', ExactlyItsDeletes'
    PROVE  DInv'
<1>1. Owners /\ Merged
  BY DEF DInv
<1>2. Owners' /\ Merged'
  BY <1>1 DEF Owners, Owns, Merged, Tasks, Deletes, Pos, filterVars
<1> QED
  BY <1>2 DEF DInv

LEMMA TakeTaskStep ==
    ASSUME DInv, [Next]_vars, NEW f \in Tasks, TakeTask(f)
    PROVE  DInv'
<1> USE SameRead
<1>1. Types /\ Readers /\ ExactlyItsDeletes
  BY DEF DInv
<1>2. /\ UNCHANGED <<filterVars, at, notifier, predicates, applied>>
      /\ reader[f] = "idle" /\ reader' = [reader EXCEPT ![f] = "opening"]
      /\ loader' = [loader EXCEPT ![f] = "running"]
  BY DEF TakeTask
<1>3. \A g, e : Wants(g, e)' = Wants(g, e)
  BY <1>2 DEF Wants, Wanted, Listed, Pos
<1>4. Types'
  BY <1>1, <1>2 DEF Types, filterVars
<1>5. Readers'
  BY <1>1, <1>2, <1>3 DEF Readers, Types, Loaded, filterVars
<1>6. ExactlyItsDeletes'
  BY <1>1, <1>2 DEF ExactlyItsDeletes, Types
<1> QED
  BY <1>2, <1>4, <1>5, <1>6, ReaderFrame

LEMMA DropReadersStep ==
    ASSUME DInv, [Next]_vars, NEW outcome, DropReaders(outcome)
    PROVE  DInv'
<1> USE SameRead
<1>1. Types /\ Readers /\ ExactlyItsDeletes
  BY DEF DInv
<1>2. /\ UNCHANGED <<filterVars, at, loader, notifier, predicates, applied>>
      /\ reader' = [f \in Tasks |-> IF reader[f] = "done" THEN "done" ELSE "dropped"]
  BY DEF DropReaders, loaderVars
<1>3. \A g, e : Wants(g, e)' = Wants(g, e)
  BY <1>2 DEF Wants, Wanted, Listed, Pos
<1>4. Types'
  BY <1>1, <1>2 DEF Types, filterVars, Loaded
<1>5. Readers'
  BY <1>1, <1>2, <1>3 DEF Readers, Types, Loaded, filterVars
<1>6. ExactlyItsDeletes'
  BY <1>1, <1>2 DEF ExactlyItsDeletes, Types
<1> QED
  BY <1>2, <1>4, <1>5, <1>6, ReaderFrame

(* The future of f goes on, and nothing else. *)
LEMMA ReaderMoves ==
    ASSUME DInv, [Next]_vars, NEW f \in Tasks,
           NEW place \in {"deletes", "predicates", "looked", "waiting"},
           place # "deletes" => loader[f] = "loaded",
           reader' = [reader EXCEPT ![f] = place], notifier' \in [Tasks -> FilterStates],
           UNCHANGED <<filterVars, loaderVars, predicates, applied>>
    PROVE  DInv'
<1> USE SameRead
<1>1. Types /\ Readers /\ ExactlyItsDeletes
  BY DEF DInv
<1>2. \A g, e : Wants(g, e)' = Wants(g, e)
  BY DEF Wants, Wanted, Listed, Pos
<1>3. Types'
  BY <1>1 DEF Types, filterVars, loaderVars, Loaded
<1>4. Readers'
  BY <1>1, <1>2 DEF Readers, Types, Loaded, filterVars, loaderVars
<1>5. ExactlyItsDeletes'
  BY <1>1 DEF ExactlyItsDeletes, Types
<1> QED
  BY <1>3, <1>4, <1>5, ReaderFrame DEF loaderVars

(* The future of f has the predicate of d. *)
LEMMA PredicateTaken ==
    ASSUME DInv, [Next]_vars, NEW f \in Tasks, NEW d \in Deletes, Wants(f, d),
           loader[f] = "loaded", reader' = [reader EXCEPT ![f] = "predicates"],
           predicates' = [predicates EXCEPT ![f] = @ \cup {d}],
           notifier' \in [Tasks -> FilterStates],
           UNCHANGED <<filterVars, loaderVars, applied>>
    PROVE  DInv'
<1> USE SameRead
<1>1. Types /\ Readers /\ ExactlyItsDeletes
  BY DEF DInv
<1>2. d \in Listed(f) /\ ~Pos(d)
  BY DEF Wants, Wanted
<1>3. \A g \in Tasks \ {f} : \A e : Wants(g, e)' = Wants(g, e)
  BY <1>1 DEF Wants, Wanted, Listed, Pos, Types
<1>4. Types'
  BY <1>1 DEF Types, filterVars, loaderVars, Loaded
<1>5. Readers'
  BY <1>1, <1>2, <1>3 DEF Readers, Types, Loaded, filterVars, loaderVars
<1>6. ExactlyItsDeletes'
  BY <1>1 DEF ExactlyItsDeletes, Types
<1> QED
  BY <1>4, <1>5, <1>6, ReaderFrame DEF loaderVars

LEMMA AskForPredicateStep ==
    ASSUME DInv, [Next]_vars, NEW f \in Tasks, NEW d \in Deletes, AskForPredicate(f, d)
    PROVE  DInv'
<1>1. Types /\ Owners /\ Readers
  BY DEF DInv
<1>2. loader[f] = "loaded" /\ d \in Listed(f)
  BY <1>1 DEF AskForPredicate, Readers, Loaded, Wants, Wanted
<1>3. at[f][d] = "done"
  BY <1>1, <1>2 DEF Readers
<1>4. filter[d] # "absent"
  BY <1>1, <1>3 DEF Owners
<1>5. notifier' \in [Tasks -> FilterStates]
  BY <1>1 DEF AskForPredicate, Types
<1>6. reader \in [Tasks -> {"idle", "opening", "deletes", "dropped"} \cup Loaded]
  BY <1>1 DEF Types
<1>7. CASE filter[d] = "loaded"
  <2>1. /\ predicates' = [predicates EXCEPT ![f] = @ \cup {d}]
        /\ reader' = reader /\ reader[f] = "predicates" /\ Wants(f, d)
        /\ UNCHANGED <<filterVars, loaderVars, applied>>
    BY <1>7 DEF AskForPredicate
  <2>2. reader' = [reader EXCEPT ![f] = "predicates"]
    BY <1>6, <2>1
  <2> QED
    BY <1>2, <1>5, <2>1, <2>2, PredicateTaken
<1>8. CASE filter[d] # "loaded"
  <2>1. PICK place \in {"looked", "waiting"} : reader' = [reader EXCEPT ![f] = place]
    BY <1>4, <1>8 DEF AskForPredicate
  <2>2. UNCHANGED <<filterVars, loaderVars, predicates, applied>>
    BY <1>8 DEF AskForPredicate
  <2> QED
    BY <1>2, <1>5, <2>1, <2>2, ReaderMoves
<1> QED
  BY <1>7, <1>8

LEMMA TakePredicateStep ==
    ASSUME DInv, [Next]_vars, NEW f \in Tasks, NEW d \in Deletes, TakePredicate(f, d)
    PROVE  DInv'
<1>1. Types /\ Readers
  BY DEF DInv
<1>2. reader[f] = "woken" /\ Wants(f, d) /\ loader[f] = "loaded"
  BY <1>1 DEF TakePredicate, Readers, Loaded
<1>3. filter[d] = "loaded"
  BY <1>1, <1>2 DEF Readers
<1>4. /\ predicates' = [predicates EXCEPT ![f] = @ \cup {d}]
      /\ reader' = [reader EXCEPT ![f] = "predicates"]
      /\ UNCHANGED <<filterVars, loaderVars, applied>>
      /\ notifier' \in [Tasks -> FilterStates]
  BY <1>1, <1>3 DEF TakePredicate, Types
<1> QED
  BY <1>2, <1>4, PredicateTaken

LEMMA ReadDataFileStep ==
    ASSUME DInv, [Next]_vars, NEW f \in Tasks, ReadDataFile(f)
    PROVE  DInv'
<1> USE SameRead
<1>1. Types /\ Merged /\ Readers /\ ExactlyItsDeletes
  BY DEF DInv
<1>2. /\ reader[f] = "predicates" /\ Wanted(f) = {}
      /\ applied' = [applied EXCEPT ![f] =
                        predicates[f] \cup {d \in Deletes : <<d, f>> \in vectors}]
      /\ reader' = [reader EXCEPT ![f] = "done"]
      /\ UNCHANGED <<filterVars, loaderVars, notifier, predicates>>
  BY DEF ReadDataFile
<1>3. \A g, e : Wants(g, e)' = Wants(g, e)
  BY <1>2 DEF Wants, Wanted, Listed, Pos
<1>4. Listed(f) \subseteq Deletes /\ \A d \in Listed(f) : at[f][d] = "done"
  BY <1>1, <1>2, ListedDeletes DEF Types, Readers, Loaded
<1>5. Types'
  BY <1>1, <1>2 DEF Types, filterVars, loaderVars, Loaded
<1>6. Readers'
  BY <1>1, <1>2, <1>3 DEF Readers, Types, Loaded, filterVars, loaderVars
<1>7. ExactlyItsDeletes'
  <2>1. {d \in Listed(f) : Pos(d) => f \in read.rows[d]} \subseteq applied'[f]
    BY <1>1, <1>2, <1>4 DEF Merged, Wanted, Types
  <2>2. \A d \in applied'[f] : IF Pos(d) THEN f \in read.rows[d] ELSE d \in Listed(f)
    BY <1>1, <1>2 DEF Merged, Readers, Types
  <2>3. \A g \in Tasks \ {f} : applied'[g] = applied[g] /\ reader'[g] = reader[g]
    BY <1>1, <1>2 DEF Types
  <2> QED
    BY <1>1, <2>1, <2>2, <2>3 DEF ExactlyItsDeletes
<1> QED
  BY <1>2, <1>5, <1>6, <1>7, ReaderFrame DEF loaderVars

LEMMA ReaderStepKeepsDInv ==
    ASSUME DInv, [Next]_vars, NEW f \in Tasks, ReaderStep(f)
    PROVE  DInv'
<1>1. Types
  BY DEF DInv
<1>2. CASE TakeTask(f)
  BY <1>2, TakeTaskStep
<1>3. CASE OpenParquetFile(f)
  <2>1. CASE f \in read.badFiles
    BY <1>3, <2>1, DropReadersStep DEF OpenParquetFile
  <2>2. CASE f \notin read.badFiles
    BY <1>1, <1>3, <2>2, ReaderMoves DEF OpenParquetFile, Types
  <2> QED
    BY <2>1, <2>2
<1>4. CASE AwaitDeletes(f)
  <2>1. CASE DropReaders("failed")
    BY <2>1, DropReadersStep
  <2>2. CASE ~DropReaders("failed")
    BY <1>1, <1>4, <2>2, ReaderMoves DEF AwaitDeletes, Types
  <2> QED
    BY <2>1, <2>2
<1>5. CASE \E d \in Deletes : AskForPredicate(f, d) \/ TakePredicate(f, d)
  BY <1>5, AskForPredicateStep, TakePredicateStep
<1>6. CASE WaitForPredicate(f)
  <2>1. loader[f] = "loaded"
    BY <1>6 DEF WaitForPredicate, DInv, Readers, Loaded
  <2> QED
    BY <1>1, <1>6, <2>1, ReaderMoves DEF WaitForPredicate, Types
<1>7. CASE ReadDataFile(f)
  BY <1>7, ReadDataFileStep
<1> QED
  BY <1>2, <1>3, <1>4, <1>5, <1>6, <1>7 DEF ReaderStep

LEMMA StepKeepsDInv == DInv /\ [Next]_vars => DInv'
<1> SUFFICES ASSUME DInv, [Next]_vars PROVE DInv'
  OBVIOUS
<1>1. CASE UNCHANGED vars
  <2>1. read' = read /\ UNCHANGED <<filterVars, at>>
    BY <1>1 DEF vars, loaderVars
  <2>2. Types' /\ ExactlyItsDeletes'
    BY <1>1 DEF DInv, Types, ExactlyItsDeletes, Tasks, Deletes, Pos, Listed, vars,
       filterVars, loaderVars, readerVars
  <2>3. Readers'
    BY <1>1 DEF DInv, Readers, Tasks, Deletes, Pos, Listed, Wants, Wanted, vars,
       filterVars, loaderVars, readerVars
  <2> QED
    BY <2>1, <2>2, <2>3, ReaderFrame
<1>2. ASSUME NEW f \in Tasks, LoaderStep(f) PROVE DInv'
  <2>1. ASSUME NEW d \in Deletes, LoadStep(f, d) PROVE DInv'
    BY <2>1, LoadStepKeepsTypes, LoadStepKeepsOwners, LoadStepKeepsMerged,
       LoadStepKeepsReaders DEF DInv
  <2> QED
    BY <1>2, <2>1, LoaderFailsStep, LoaderEndsStep DEF LoaderStep, LoadStep
<1>3. ASSUME NEW f \in Tasks, ReaderStep(f) PROVE DInv'
  BY <1>3, ReaderStepKeepsDInv
<1>4. ASSUME NEW d \in Deletes, StorePredicate(d) PROVE DInv'
  BY <1>4, StorePredicateStep
<1>5. CASE StreamEnds
  BY <1>5 DEF StreamEnds, DInv, Types, Owners, Owns, Merged, Readers, ExactlyItsDeletes,
     Tasks, Deletes, Pos, Listed, Wants, Wanted, filterVars, loaderVars
<1>6. CASE DropStream
  BY <1>6, DropReadersStep DEF DropStream
<1> QED
  BY <1>1, <1>2, <1>3, <1>4, <1>5, <1>6 DEF Next, Progress

LEMMA DInvHolds == Spec => []DInv
BY InitHasDInv, StepKeepsDInv, PTL DEF Spec

-----------------------------------------------------------------------------
(* Every file of every read gets all its deletes and no others, for any     *)
(* number of tasks that load the same delete files at once.                 *)
THEOREM DeletesAreExact == Spec => []ExactlyItsDeletes
BY DInvHolds, PTL DEF DInv

(* A delete file is loaded by one loader and not again once it is loaded,   *)
(* on several threads too.                                                  *)
THEOREM LoadersAreAlone == Spec => []OneOwner
<1>1. DInv => OneOwner
  <2> SUFFICES ASSUME DInv, NEW d \in Deletes
               PROVE  LET owners == {f \in Tasks : Owns(f, d)}
                      IN  /\ Cardinality(owners) <= 1
                          /\ filter[d] = "loaded" \/ d \in parsed => owners = {}
    BY DEF OneOwner, Owns
  <2> DEFINE owners == {f \in Tasks : Owns(f, d)}
  <2>1. \A f, g \in owners : f = g
    BY DEF DInv, Owners
  <2>2. filter[d] = "loaded" \/ d \in parsed => owners = {}
    BY DEF DInv, Owners
  <2>3. CASE owners = {}
    <3>1. Cardinality(owners) = 0
      BY <2>3, FS_EmptySet
    <3> QED
      BY <2>2, <3>1
  <2>4. CASE owners # {}
    <3>1. PICK f \in owners : owners = {f}
      BY <2>1, <2>4
    <3>2. Cardinality(owners) = 1
      BY <3>1, FS_Singleton
    <3> QED
      BY <2>2, <3>2
  <2> QED
    BY <2>3, <2>4
<1> QED
  BY <1>1, DInvHolds, PTL

(* No reader asks for a predicate that nobody is loading, nor is woken      *)
(* before it is there.                                                      *)
THEOREM PredicatesAreAlwaysFound == Spec => []PredicatesAreFound
<1>1. DInv => PredicatesAreFound
  BY DEF DInv, Readers, PredicatesAreFound
<1> QED
  BY <1>1, DInvHolds, PTL
=============================================================================
