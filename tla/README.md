# TLA+ models of HISTrees / SELERA

A verification project for the C++ code under `src/`: a histogram forest inside
an HNSW index (HISTrees) and the filtered nearest-neighbour search on top of it
(SELERA, `OursSearch` / `OursMethod` in the code). Paths below are relative to
the repository's `src/` directory; `core/` stands for `src/hnsw_stats/`, so that
`core/stats/RegionHistogramStats.cpp` is
`src/src/hnsw_stats/stats/RegionHistogramStats.cpp` in `PROJECT.json`.

Contents: [1 inventory](#1-inventory) · [2 modules](#2-modules) ·
[3 model and code](#3-how-the-models-correspond-to-the-code) ·
[4 runs](#4-what-the-runs-check) · [5 bounds](#5-bounds-and-views) ·
[6 assumptions](#6-assumptions-and-fairness) · [7 proofs](#7-what-is-proved) ·
[8 divergences](#8-disagreements-between-code-and-documents) ·
[9 not modelled](#9-what-is-not-modelled) · [10 plan](#10-plan)

## 1 Inventory

### 1.1 Components

| Component | State it keeps | Operations | Interacts with | Correct when |
|---|---|---|---|---|
| **Statistics** `core/stats/RegionHistogramStats` | per tree: candidates, `parent_cand`, `tree_root`, `lmat_max_n`, change counters; per candidate: region id; per region: size, per-column histogram row, presence bitmap; `region_of` (in the shared `RegionMap`), `pres_degraded_` | multi-layer constructor, `on_insert`, `on_update`, `on_delete`, `rebuild_tree`, `sigma_hat`, `atom_empty`, `dnf_empty` | reads levels, fathers and tombstones of the HNSW adapter, and the caller's column arrays; writes the `RegionMap` the search reads | the discard test never drops a satisfying point; ids are unique and not reused; sizes and counts err on the documented side only |
| **Driver** `harness/method/OursMethod` | statistics, searcher, `pending_adds_`, `hist_staled_`, configured switches, index and calibration files | `build`, `inc_add`, `inc_flush`, `inc_update`, `inc_delete`, `inc_rebuild_tree`, switches, `search` | decides when a searcher is replaced or its tables dropped | no copy in a searcher outlives what it was copied from; a build survives what a crash left in its files |
| **Connected-domain search** `core/search/OursSearch` | `pack_` (visit stamp and region id per point), member slices and region adjacency, per-region stamps and arrays | `knn_search_connected_domain`: descent, B-mode (`spread_B`), C-mode (`spread_C`), component flood (`transp_core`), case loop | reads graph, statistics, `RegionMap`, predicate, cost model | terminates; misses no satisfying point but behind a split region or a stranded entry; at most ef results |
| **Region traversal** `core/search/OursSearch` | one queue of distances and proxy keys, the same stamps | `search`, `search_boundary`, `search_with_strategy`, all through `run` | as above | terminates; misses nothing but what its boundary mode and its stop rule give up |
| **Epochs** `core/search/OursSearch` | a 32-bit and an 8-bit epoch, stamp arrays | advanced at the start of every search; arrays cleared on a wrap | shared by both kinds of search | no search meets a stamp of an earlier one |
| **HNSW adapter** `core/hnsw/HnswIndex` | base id / internal id maps, projected levels, fathers, neighbours | `build`, `add_incremental`, `reproject`, `remove`, `is_deleted` | wraps vendored hnswlib | ids are translated exactly once each way |
| **HNSW graph** `core/hnsw/vendor/hnswlib` | vectors, links, levels, locks, tombstones | `addPoint` (parallel), `markDelete` | — | father strictly above; lists within their limits; a layer whose points fit one list stays connected; no deadlock |
| **Predicates** `core/predicate` | none | `eval` of comparisons, ranges, categories, DNF | evaluated by search; read by the statistics | a bucket judged empty holds no value the atom accepts |
| **Region builders** `core/region` | single-layer `RegionMap` | assign every point to a region | fill what search and statistics read | every point in one region, each region a tree |
| **Beam search** `core/search/HnswSearch` | visited stamps | greedy descent, ef-bounded beam | descent of SELERA, baselines | results are the best of the visited, at most ef |
| **Cost model** `core/cost_model` | calibration tables | estimate B against C, save and load | choice of mode in search | any answer is admissible; what it holds comes from one measurement on the present regions |
| **Ground truth** `harness/gt` | cache files | exact scan by worker threads, cache | experiments | the cached answer belongs to the query asked |
| **Baselines** `baselines/reimpl` | index file, stamps | post-filter, NaviX-style: build, search | experiments | what they miss is what their method gives up |
| **Adapters** `harness/method/*` | their own | calls of external libraries | experiments | — |
| **Loaders, generators, metrics** `harness/common`, `harness/metrics` | — | file input, data generation, averages | experiments | — |

### 1.2 How an operation runs through the components

An *insert* adds the point to the graph (`add_incremental`), is kept in
`pending_adds_`, and at the next `inc_flush` the graph is projected again, every
pending point goes through `on_insert` (region ids, sizes, histograms, counts
and presence bits, eagerly) and the searcher is replaced. An *update* changes
the column value in the caller's array and sets a presence bit; the histograms
follow only when the tree has seen `max(16, n/2)` modifications and is rebuilt.
A *delete* tombstones the point in the graph and decrements at the root of the
tree only; again a threshold rebuilds the tree. A *rebuild* recounts the live
points of one tree, chooses the kept histograms anew, retires the regions of
candidates that no column keeps, hands out ids from `n_regions` on to newly
bound ones, moves the live points of the tree and recomputes all bitmaps. A
*search* uses bitmaps or histograms to skip whole regions without looking at
their points. A *build* takes the graph from a file or constructs it in parallel, cuts it into
regions, and calibrates the cost model or reads an earlier calibration. Only the
graph construction and the ground-truth workers run concurrently; everywhere
else the difficulty is **protocol sequences**: many copies of the same fact
(region id of a point, size, bucket counts, bits, slices, stamps, files) are
refreshed at different times.

### 1.3 Hard behaviours

`PROJECT.json` lists the hazards at their lines. The families are

1. *skips on stale evidence*: a bitmap, a histogram or a packed region id says
   "nothing here" while a live point satisfies the predicate;
2. *region ids*: handed out, retired and kept by rebuilds, copied into the
   searcher, used as indexes of its arrays;
3. *lazy counters with a floor at zero*: sizes, rows and tree counts that
   deletes and updates leave behind;
4. *points without candidate ancestor*: they lie in region 0 and count in
   tree 0, but in no histogram;
5. *two id spaces* of the graph, equal only after a sequential build;
6. in the searches: termination, points un-visited at a boundary, points queued
   under a key that is not their distance, stop rules that meet equality, epochs
   that wrap;
7. in the graph construction: concurrent linking, full lists chosen anew, two
   id spaces, locks held while others are taken;
8. files written in place and read by later processes.

All are modelled; what no property covers is said at the hazard.

## 2 Modules

| Module | Kind | Content |
|---|---|---|
| `HistForest` | component | statistics, `RegionMap` and tombstones under insert, update, delete, rebuild; the discard test |
| `OursMethodInc` | composition | the driver's incremental calls around `HistForest`, and everything its searcher copies |
| `ConnectedDomain` | component | one call of `OursSearch::knn_search_connected_domain`: floods, best-first spreads, crossings of empty regions, the case loop |
| `FilteredSearch` | abstract specification | what a filtered search promises: nearest of what it is offered, only improving, and an end with K results or all there are |
| `GraphSearch` | shared part | descent, result heap and answer of the searches below |
| `BeamSearch` | component | `HnswSearch::search` and `PostFilter::search` |
| `NavixSearch` | component | `NavixMethod::search` |
| `RegionTraversal` | component | `OursSearch::run` behind `search`, `search_boundary`, `search_with_strategy` |
| `SearchMethods` | composition | the three searches side by side |
| `ParallelInsert` | component | construction of an `HnswIndex` by threads: `addPoint` lock by lock, then `project` |
| `RegionBuild` | component | `ForestRegionBuilder` and `HubVoronoiRegionBuilder` on the projected index |
| `CacheFiles` | shared part | files that a crash leaves torn |
| `MethodBuild` | component | `build` of `OursMethod`, `PostFilter`, `NavixMethod` with index and calibration files |
| `GroundTruth` | component | `BruteForceGT` with its workers and its cache |
| `SearchEpochs` | component | the epochs of an `OursSearch` from search to search |
| `Lifecycle` | union | the five modules above; each behaviour runs one part |
| `MCHistForest`, `MCOursMethodInc`, `MCConnectedDomain`, `MCSearchMethods`, `MCLifecycle` | model checking | small forests, predicates, views, graphs, files |
| `NearestFacts` | lemmas | what a heap that keeps the n nearest does to what it is offered, for any finite set and any distances without ties |
| `HistForest_proofs`, `OursMethodInc_proofs`, `ConnectedDomain_proofs`, `SearchMethods_proofs`, `ParallelInsert_proofs`, `SearchEpochs_proofs` | proofs | the theorems about the module each is named for (`SearchMethods_proofs`: also `BeamSearch`, `NavixSearch`, `RegionTraversal`) |
| `Lifecycle_proofs` | proofs | the theorems about `MethodBuild`, `RegionBuild`, `GroundTruth`, and the union |

`OursMethodInc` EXTENDS `HistForest`: each driver call is the conjunction of the
statistics' action and what the driver does to the searcher, in one step,
because the driver runs one call at a time. `ConnectedDomain` takes the tables
it reads (regions, adjacency, bitmaps) as constants: no maintenance runs during a
search, and whether those tables are current is the business of the other two
modules. It refines `FilteredSearch` (`INSTANCE ... WITH`, property
`KeepsPromise`). `RegionBuild` EXTENDS `ParallelInsert`: the builders run on
whatever index the threads ended with. `Lifecycle` is a union and no
interaction: its variable `part` chooses index, method, truth or searcher at the
start, and the parts share no variable; one run checks them all.

## 3 How the models correspond to the code

### 3.1 `HistForest`

| Variable | In the code |
|---|---|
| `flushed`, `deleted` | points passed to the constructor or `on_insert`; points for which `is_deleted` answers true |
| `val` | the caller's column arrays, which `MLState::col_values` mirrors (both change in one step: experiments write both) |
| `fca` | `fca_of` / `cand_of`: first candidate met on the father chain of a point |
| `rid`, `nreg` | `cand_regionid`, `n_regions_` |
| `regionOf` | `RegionMap::region_of` |
| `size`, `hist`, `pres`, `degraded` | `region_size_`, the rows of `counts`, `pres_bits_` as a set of (region, bucket) pairs, `pres_degraded_` |
| `treeN`, `cntMod`, `cntDel` | `lmat_max_n`, `LmatTreeMeta::cnt_mod`, `cnt_del` |

| Action | Code |
|---|---|
| `Init` | the multi-layer constructor: any choice of kept candidates per column, then ids in candidate order, rows, `region_of`, sizes, bitmaps, tree counts |
| `Insert(P, w, a)` | `on_insert` for the batch that one `inc_flush` hands over; ids are consecutive |
| `Update(p, col, new)` | `on_update` including the rebuild when the threshold is reached |
| `Delete(p)` | `HnswIndex::remove` then `on_delete`, including the rebuild |
| `Rebuild(t)` | `rebuild_tree` on request |
| `RebuildTree(t)` | the body shared by the last three, read with `val'` and `deleted'` because the code rebuilds after storing the value or setting the tombstone |

*Abstractions.* The forest is given by `Parent` and `Level`; `Anc[c]` is what a
climb from `c` meets, defined as the least upward-closed set so that no
recursion is needed and the prover can work with it. Which candidates a column
keeps (the discard test on the histogram error, and the storage budget) is *any*
choice `K`: what holds for all choices holds for the one the code makes. A value
is a bucket or, in a categorical column, `Unseen`, a category the build did not
contain. An atom of a predicate is the set of buckets a value that satisfies it
may fall into (`vals`), which is what `atom_empty` tests; `MaySatisfy` therefore
over-approximates the predicate and the soundness proved is the stronger for it.
Beside them it names the buckets of which `sigma_hat` counts a part (`counted`);
the discard test does not look at those.
Retired regions keep their histogram rows (the code overwrites rows only of
regions in use) and get size 0, as in the code.

### 3.2 `OursMethodInc`

| Variable | In the code |
|---|---|
| `pending`, `erased` | `pending_adds_`; the ids `inc_delete` was called with (history) |
| `packRid`, `arrayRegions` | `pack_[].rid` and the length of the per-region arrays, both fixed in the constructor of `OursSearch` |
| `tadjBuilt`, `sliceOf` | `tadj_built_` and the region under which `mcsr_perm_` lists a point |
| `histStaled`, `transitCfg`, `presenceCfg`, `transitSkip` | `hist_staled_`, `transit_skip_cfg_`, `use_presence_cfg_`, the searcher's `transit_skip_` |

| Action | Code |
|---|---|
| `IncAdd`, `IncFlush`, `IncUpdate`, `IncDelete`, `IncRebuild` | the `inc_*` functions |
| `NewSearcher` | `rebuild_searcher_` |
| `AfterMaintenance` | "replace the searcher if regions were added, else `invalidate_tadj`" of `inc_update` and `inc_delete` |
| `SetTransitSkip`, `SetUsePresence` | the two setters |
| `SearchBuildsTables` | the part of the first search after an invalidation that matters here: `build_tadj_` |

When presence bitmaps are off and transit skips are on, the search drops points
of regions whose estimated selectivity is exactly zero. `HistNode`, `SigmaZero`,
`SelZero` model when it is. There are three ways, and only the first is evidence:

1. the region is empty, or every counted bucket of some atom of the clause is;
2. the atom counts nothing there: it lies beyond the edges of the build, where
   `cdf` answers 0 or 1 whatever the outer buckets hold
   (`RegionHistogramStats.cpp:330-331`) although `bucket_of` clamps inserted and
   updated values into them, or asks for a category unknown to the build
   (`:354`). This is `counted` of an atom, which may differ from `vals`;
3. the product over the atoms is so small that `1 - sel_Cj` rounds to 1
   (`OursSearch.cpp:375-379`). `Faint` is the set of clauses this may happen to,
   any set: a clause in it never keeps a region.

`SigmaZero` errs towards skips: a "greater than" atom over an empty row answers
1 in the code. The skips of 2 and 3 do pass over satisfying points;
`HistSkipSafe` says what is safe from all three.

### 3.3 `ConnectedDomain`

| Variable | In the code |
|---|---|
| `mode` | `transparent_`, `membership_`, and the parameters `enable_es2`, `enable_phase2`; `Default` in the MC module has them all on, as the code has |
| `entry`, `sat`, `hollow` | `v0`; the points `peval` accepts; the regions `region_empty` accepts (any regions without satisfying points: bitmaps may miss some) |
| `vis`, `svis2`, `swept`, `tvis` | `pack_[].vis`, `svis2_`, `mb_stamp_`, `tvis_region_` at the present epoch |
| `stranded` | history, no counterpart: the entries that waited in a list when a sweep stamped their region (`OursSearch.cpp:729`) |
| `results` | the result heap; `Full`, `Closer`, `Worst` are the tests against `ef` and `cur_worst` |
| `ABs`, `ACs`, `newB`, `newC` | the entries of the case loop and those the current spread lists (`B_ABs_new`, `C_ACs_new`, ...) with their region sets |
| `pc`, `pure`, `sfr` | which loop runs; whether the round has one list only; `sfr_stamp_` |
| `work`, `scan`, `ph2` | `sc_heap`, `sb_bq` or `mb_rq_`; what is left of the neighbours at hand; `sc_ph2` |
| `frontier`, `replays`, `replayWorst` | `tcomp_frontier_`, `transp_replay_cnt_`, `transp_replay_worst_` |

| Action | Code |
|---|---|
| `Init` | descent (its result: any entry), evaluation of `v0`, first choice of mode |
| `BeginBest`, `BeginFlood`, `BeginSweep`, `Finish` | a round of the case loop: seeds evaluated, the loop ends when both lists are empty |
| `ExpandBest`, `ScanBest` | first phase of `spread_C`: one expansion, then one neighbour at a time with its four outcomes (inside, empty region, walk on, list) |
| `Replay`, `EarlyStop`, `BoundaryStop`, `HeapEmpty` | the four ways the first phase ends |
| `Diffuse`, `ScanDiffuse`, `EndBest` | second phase of `spread_C`, and the merge of the lists |
| `ExpandFlood`, `ScanFlood`, `EndFlood` | `spread_B` over the graph |
| `SweepRegion`, `ScanSweep` | `spread_B` over member slices and the region adjacency |
| `Transit`, `List`, `SeedFor` | `transp_core`, `rec_cross` and its copies in `spread_B`, the choice of an entry |

*Abstractions.* Distances are a ranking without ties. `ef = K`, as the search
sets it unless it is compiled with `HS_EFSWEEP` (`OursSearch.cpp:324-330`). Queues and neighbour lists are sets from which any
element may come next, and the cost model may decide either way wherever it is
asked, except where a conjunct of the code decides: `MayBest` (an empty region is
not searched best first before the results are full) and `GateMustOpen`. Both
allow more behaviours than the code has; for the two violations the trace was
compared with the code by hand. The settings that force one traversal
(`force_kind_`, extreme `dnf_lambda_tradeoff_`) switch crossings off and are not
modelled. Stamps belong to one search; `SearchEpochs` says why they may.

### 3.4 `GraphSearch`, `BeamSearch`, `NavixSearch`, `RegionTraversal`

| Variable | In the code |
|---|---|
| `measured`, `results`, `answer` | `stamp_` at the present epoch; the result heap; the ids returned |
| `cand`, `added` | `candidates` or `cand`; `added_` |
| `svis`, `bq`, `want` (NaviX) | `svis_`; the queue of a blind expansion; `deg - found` |
| `uq`, `key`, `vis`, `bfs`, `scan`, `hopped` (region) | `UQ`; `key_x`; `pack_[].vis`; `bfs`; the neighbours across the border at hand; `svis_` |
| `plan` (region) | boundary mode, what `decide` answers per region, regions below `sigma_gate` |

| Action | Code |
|---|---|
| `Descend` | one pass over the neighbours of the point where the pass began (the code fixes that list), which ends at the nearest of them |
| `BeamExpand`, `BeamFinish` | one turn of the loop in `HnswSearch`; the filter of `PostFilter` |
| `ExpandOneHop`, `ExpandDirected`, `ExpandBlind`, `NavixBlind`, `NavixBlindEnd` | the three branches of `expand`; a step of the blind queue; its end |
| `PopStop`, `PopSeen`, `PopBest`, `PopFlood` | one turn of the outer loop of `run`, by how it ends |
| `FloodPoint`, `FloodEnd`, `ScanBorder` | the inner loop; `handle_boundary` for one neighbour (`QueueOwn`, `QueueProxy`, `SearchThrough` for `struct_reach`) |

*Abstractions.* `Offer` adds the neighbours of one point together: the heap ends
with the same points, and every subset of those that were results for a while may
stay as candidates. `NaviX`'s thresholds are its defaults (0.5 and 3). Queues and
neighbour lists are sets.

### 3.5 `ParallelInsert` and `RegionBuild`

| Variable | In the code |
|---|---|
| `next`, `work[t]` | the atomic counter; program counter and locals of a thread in `addPoint`: `found`, `open`, `seen` are `top_candidates`, `candidateSet` and the visited array |
| `label`, `lev`, `father`, `links` | external labels, `element_levels_`, `father_`, link lists by layer |
| `enter`, `top`, `global` | `enterpoint_node_`, `maxlevel_`, who holds the lock on both |
| `proj` | what `project` computes |
| `regions` | the `RegionMap`, for hub-Voronoi with `best` and the queue while it grows |

Each step of a thread is what it does between taking and giving back one lock;
`Look` and `Start` are apart because the entry point is read after the lock may
have been given back. `Locked(i)` stands for `link_list_locks_[i]`, held by the
insertion of `i` from start to end. `Search` keeps the `Efc` nearest of what it
meets and ends as `searchBaseLayer` does; `Selected` is
`getNeighborsByHeuristic2`, which returns what it is given if that is fewer than
`m` and else may return fewer than `m`. It is applied to the list of the new
point (`Choose`, with M) and to every full list the new point is offered to
(`Link`, with `Most(l)`: M on upper layers, twice that on layer 0). Both places
refine `father_` of the point whose list it is (`Refined`). A reselection drops
links in one direction only, so a layer with more points than a list has room for
may lose a point; `LayersConnected` speaks of the others.

### 3.6 `MethodBuild`, `GroundTruth`, `SearchEpochs`

`MethodBuild` has one process at a time; `index` and `calib` are the files, torn
from the moment they are opened for writing until all is written. The FNV hash
in the name of a calibration file is the region map itself (no collisions). A
measurement is known by its process and region map: `costs` for what `calibrate`
sets, `samples` for what the sampling phases set. `Crash` may come before every
step. `GroundTruth` steps through the iterations of its workers one by one (`Scan` is
the loop of one query over all points, which touches nothing that is shared) and
has torn files likewise; a call may end anywhere. `SearchEpochs` groups the
stamp arrays into families by who clears them; `missed` records the families
that the last 32-bit wrap left alone: those of the other kind of search, and the
tables unless they were rebuilt.

## 4 What the runs check

| Run | Spec | Properties | What it shows |
|---|---|---|---|
| `trees` | `HistForest` | `DiscardSafe`, `RegionCurrent`, `TreeCountSafe`, `RidInjective`, `FreshRegionIds`, `OneTreeTouched` | two trees rebuilt in any order among inserts, updates, deletes |
| `counts` | `HistForest` | `TypeOK`, `DiscardSafe`, `SizesCover`, `HistDrift` | what lazy counters can be wrong by; all conjunctions and disjunctions of two atoms, with a category the build did not contain |
| `driver` | `OursMethodInc` | `IncTypeOK`, `ArraysFit`, `StaleNeverSkips` | every call and every switch in every order |
| `maintenance` | `OursMethodInc`, without requested rebuilds | `SlicesCurrent`, `HistSkipSafe` | member slices never list a point where it no longer lies; skips on histograms lose nothing the histograms count as long as they are allowed, with atoms beyond the edges and a clause that rounds away |
| `search` | `ConnectedDomain`, K = 2 | `TypeOK`, `NoVisitedLost`, `EmptyNotEntered`, `Exhaustive`, `KeepsPromise` | an entry in every region, seven sets of satisfying points, all sixteen settings, every cost decision, on the graph with a region that falls apart |
| `methods` | `SearchMethods`, K = 2, ef 2 or 3 (1 or 3 in the beam) | `MethodsTypeOK`, `BeamClosed`, `NavixLocal`, `NavixEmptyRight`, `RegionExhaustive`, `OnlyWorstHides`, `Ends` | three searches on six graphs, every set of satisfying points, 48 plans of the traversal |
| `lifecycle` | `Lifecycle` | `LifecycleTypeOK`, `NeverThrows`, `FathersAbove`, `LayersConnected`, `RegionsAreTrees`, `CalibWhole`, `GTRight`, `IndexBuilt`, `Recovers`, `MarksFresh` | every interleaving of two threads inserting; every build and ground truth over files that crashes left; wrapping epochs |
| `rebuilt_slices`, `packed_rids`, `tombstones` | `OursMethodInc` | one each | violations, see section 8 |
| `split_region`, `stamped_region` | `ConnectedDomain`, default setting | one each | violations, see section 8 |

The properties, in words:

- **DiscardSafe** — a region that `dnf_empty` calls empty for a predicate holds
  no live point that satisfies it.
- **RegionCurrent** — `region_of` of a live point is the id of its finest bound
  ancestor: no live point stays in a retired region.
- **FreshRegionIds** (action property) — an id that a candidate receives is
  above all ids ever handed out, so a kept id never comes to mean another region.
- **OneTreeTouched** (action property) — no step other than a flush changes ids,
  sizes, rows or regions of more than one tree.
- **RidInjective** — no two candidates own one region.
- **SizesCover** — sizes are exact at roots and never too small below.
- **HistDrift** — a row is off by at most the updates since the last rebuild:
  never too small by more anywhere, never too large by more at a root.
- **TreeCountSafe** — `lmat_max_n` never exceeds the live points of the tree, so
  the rebuild threshold is never too lax.
- **ArraysFit** — every region id a search can meet indexes within the arrays of
  the searcher that is in use.
- **StaleNeverSkips** — once updates bypassed the histograms, no searcher skips
  on their word, whatever is toggled or replaced later.
- **SlicesCurrent** — built member slices list every live point under its region.
- **HistSkipSafe** — as long as skips on histograms are on, and no bitmap takes
  their place, they pass over no live point that the histograms could have told:
  one that has a candidate ancestor and satisfies, with values they count, a
  clause that does not round away. The caller must not toggle the presence
  switch.
- **NoVisitedLost** — a visited point that satisfies the predicate is a result, is
  beaten by K results, or is listed for a later round; `pack_[].vis` is set
  before any of this is decided and reset for entries that are not needed.
- **EmptyNotEntered** — a transparent search never lists, floods or sweeps a
  region judged empty, except the one it starts in.
- **Exhaustive** — a search that ends with fewer than K results has found every
  satisfying point that is *followed* from its entry. `Followed(stop)` is defined
  on the graph alone: along edges inside a region one is always followed, along
  an edge into another region if one entry is enough for that region (it hangs
  together within itself, or is crossed as an empty one) and the point one comes
  from is not in `stop`. `stop` is `stranded`. So only two things can hide a
  point: a region that falls apart (finding 4) and an entry whose region a sweep
  stamped while it waited (finding 5).
- **NothingMissed** (violated) — the same of everything connected to the entry
  on layer 0, as Appendix B has it.
- **KeepsPromise** (refinement, with liveness) — every step leaves the results
  alone or replaces them by the nearest of them and some of the satisfying points
  that edges and slices can lead to; the search ends, with K results or at least
  all that are followed from its entry past every point that might be stranded
  (`MayStrand`: none without member slices). What is owed is thus known when the
  search starts.
- **BeamClosed** — at the end of a beam search no neighbour of a result, the worst
  included, is missing that the heap would take; with room left in the heap,
  everything reachable is in it.
- **NavixLocal** — however a point was expanded, no satisfying neighbour of a
  result that the heap would take is missing.
- **NavixEmptyRight** — an empty answer means that no satisfying point can be
  reached, although the points of an abandoned blind queue are never queued
  again.
- **RegionExhaustive** — a traversal that ends with room in its heap has found
  every satisfying point it can reach without passing a gated region or a point
  of the upper layers; the latter are passed over by `LAZY` and `GATED` borders,
  which take what the descent measured for queued. `STRUCT` gives up what lies
  behind `struct_hops_` hops and is excepted.
- **OnlyWorstHides** — where satisfying points are measured when met, the
  traversal misses no satisfying neighbour of a result other than the worst one.
- **Ends** (liveness) — each of the searches ends.
- **NeverThrows** — no order of the threads reaches an exception of the
  construction: lists about to be filled are blank, no point is linked to itself
  or on a layer it is not on, no selection is larger than M and no list larger
  than it may be.
- **FathersAbove** — fathers lie on strictly higher layers, whichever of the
  three places recorded them, and after the projection too: the assumption of
  `HistForest`.
- **LayersConnected** — in the finished index every layer of at most `Most(l) + 1`
  points can be walked as a whole from the entry point. The selection heuristic
  cuts links on such layers as well. On larger ones a full list that is chosen
  anew can drop the last link to a point: without the bound TLC finds a layer of
  four points with lists of two that falls apart.
- **RegionsAreTrees** — region numbers have no gaps, every region is a tree under
  one top, and tops with a parent elsewhere lie on level ell or above.
- **CalibWhole** — a method that is ready searches with costs and samples of one
  measurement on its own region map and, with the cache, on the graph in the
  file.
- **GTRight** — what `compute` returns, fresh or from a file of any earlier
  process, is the answer to the predicate asked.
- **IndexBuilt** (liveness) — two threads never wait for each other in a circle,
  and the region builder empties its queue.
- **Recovers** (liveness) — after the last crash a build becomes ready, except
  that with the cache a torn index file stops it, and without columns the
  sampling loop does not end (both as the code has it).
- **MarksFresh** (action property) — a search starts with nothing marked, with
  the exception recorded in `missed`; never for `stamp_`, `considered_`,
  `pstamp_` and the visit marks.

Every property of a passing run has a *mutant* in `PROJECT.json`: an alternative
definition (marked `Mutant:` in the modules) that a plausible bug would amount
to, and under which TLC finds the property violated.

## 5 Bounds and views

| Bound | Value | In the code | Why it is enough to see the cases |
|---|---|---|---|
| columns | 1 | any | what several columns do to each other (independent kept sets, conjunctions over both) is covered by `DiscardSound`, which is proved for any number |
| forests | root+child; root+child and a second root | any | both a finer region and another tree to disturb; retiring and re-binding the child takes all paths of `rebuild_tree` |
| points | 3–4, one of them added later | any | one insertion before and after rebuilds; the candidates are points themselves |
| buckets | 2 | 64 / number of categories | empty and non-empty are told apart in each bucket |
| `MaxRegions` | 3 or 4 | 2^24 (checked in the constructor of `OursSearch`) | room for one retirement and one new id in a tree; with it the number of rebuilds stays unbounded |
| `MinThresh`, `ThreshNum/ThreshDen` | 2, 1/2 | 16, `kRebuildMult` = 1/2 | both sides of the threshold are reached: one step counted, the second rebuilds |
| graphs | five points, three regions of 2, 1 and 2 points | any | a region in the middle to cross, one to enter from a crossing, one to start in; `Split` joins the two points of a region through another region only, `Star` makes every point a region |
| satisfying points | seven sets of none to four points (every set in `split_region`) | any | fewer than K, K and more, in one region and in several; with every region a chance to be empty, judged so or not |
| `K` | 2 (1 and 3 in the violations) | any | with 2 of five points the results are never full, full at the end, or full early enough for stop and replay; all its actions are taken |
| `MaxReplays` | 4 | 4 | the code's own bound |
| search methods | five points, one upper layer, three regions, six graphs (ring with chord, hub, path, one-sided lists, sinks, isolated points) | any | floods of two points, borders both ways, lists without symmetry; NaviX takes all its branches with `DegParam` = 8 |
| `Hops` | 2 | 2 | the code's own |
| construction | 4 points on levels 0 to 2, 2 threads, six different distances | any | chains of two fathers, a point that overtakes the entry point while another is inserted |
| `MaxM`, `Efc` | 2, 2 | M, `ef_construction` of at least M | with four points on layer 1 lists overflow and are chosen anew, also with a father found by it; the heuristic refuses candidates; more is met than a search keeps |
| builds | 2 graphs, 2 builders, 3 kinds, 3 starts, 2 crashes, one sample per phase | any; 180 samples | a crash in each of two writes and a build after them; another graph or builder beside the file |
| ground truth | 3 points, 1 or 3 queries, 0 or 2 threads, `KMax` 2, 3 calls | any | one chunk shorter than the other, no threads, a tie in distance, a file for another number of queries |
| epochs | `Wrap8` 3, `Wrap32` 4 | 2^8, 2^32 | several wraps of each; `EpochFresh` is proved for any width |
| predicates | all conjunctions and disjunctions of two atoms (driver: single atoms; `maintenance`: also beside a second clause, with an atom beyond the edges) | DNF | the discard test is monotone in clauses and atoms |
| `Faint` | none; in `maintenance` two clauses | any whose product is below half a unit of the last place of 1 | a region kept by the other clause, and one that is not |

`MaxStarts`, `MaxCrashes` and `MaxCalls` are bounds on histories. No counter is capped otherwise: change counters are bounded by the threshold and
values by the buckets, so the state spaces are finite and are explored fully.

*Views.* The histograms influence no other table, and no table reads the bitmaps
(the choice `K` is free). Runs about bitmaps and ids therefore use
`PresenceView`, which leaves out sizes and histograms (`counts` has no view); `maintenance`
uses `CountView`, which leaves out `regionOf` (in `maintenance` it is put back), bitmaps, and the rows of
retired regions, which nothing reads. A
view merges states that agree on the part kept; invariants and action properties
over the kept part are unaffected, those over a dropped part (the shape of
`hist` in `TypeOK`, sizes and rows in `OneTreeTouched`) are checked on the
representatives TLC explores. The last conjunct of `CountView` is always true;
it makes TLC evaluate the bitmaps it stores.

## 6 Assumptions and fairness

*Constants* (`ASSUME`s, evaluated by TLC on every run):
`ForestAssumption` — a parent lies on a strictly higher level, which is what
the father refinement in `hnswalg.h` records; `PointAssumption` — the build
points come first, `Internal` is any map on them; `ColumnAssumption`;
`BoundAssumption`. `InsertAssumption` — finitely many threads, each point has a
finite set of levels it may draw, M is at least 2 (hnswlib divides by its
logarithm) and `Efc` at least M (its constructor sees to it); `RegionAssumption` of `RegionTraversal` — there
is a plan, each plan is one the code can make; `GtAssumption` — points and
queries are numbered from 0, distances and satisfying points are given for all
of them, and `KMax` is at least 1, because a heap of no points has no top to
compare with; `BuildAssumption` and `EpochAssumption` bound histories and widths. Markers for
"nothing" (`None`, `Nothing`, `Unseen`) are not among the values they mark the
absence of.

*Callers.* There is no caller of the `inc_*` functions in the repository, so the
protocol is read off their comments and bodies: one thread; updates and deletes
of flushed ids only (an id in `pending_adds_` lies past the end of `region_of`);
no search that has to build tables while additions are pending; the caller's
column arrays are changed together with the call.

*Fairness.* The maintenance modules assume none and claim no liveness: every
call is one step there, and none must eventually happen. Deadlock is checked:
some call is always possible. `ConnectedDomain` assumes `WF_vars(Next)`: a search
is a sequential loop on one thread that waits for nothing, so it takes its next
step as long as there is one. This is all that its end is claimed under; which
of several steps comes next is left open. Its runs do not check deadlock
because a search that is done stops. `SearchMethods` assumes the same for the
same reason. `Lifecycle` assumes `WF_vars(IndexStep)`: some thread of a
construction that can step is run by the scheduler (no fairness among threads is
needed, each has finitely many points to insert), and `WF_vars` of the steps of a
build: a process that is alive goes on. Crashes, new processes, exits, calls and
searches are never owed.

*Graph* (`GraphAssumption`, `QueryAssumption`): neighbours are points, every
point has a region, distances are distinct (`SearchAssumption` likewise).
*Files*: one process at a time writes a cache; names of caches do not collide.

## 7 What is proved

All theorems are checked by `tlapm` to the last leaf and hold for every value of
the constants that satisfies the `ASSUME`s: any forest, any number of columns,
buckets, points, threads, any graph and any predicates. Where a theorem has
hypotheses of its own they are given below with the reason.

### 7.1 Statistics: `HistForest_proofs`

| Theorem | States | Inductive invariant |
|---|---|---|
| `TypeCorrect` | `Spec => []TypeOK` | `TypeInv` = `TypeOK` and there is a region (`nreg # 0`) |
| `RegionsCurrent` | `Spec => []RegionCurrent` | `PresInv` |
| `DiscardSound` | `Spec => []DiscardSafe` | `PresInv` = `TypeInv`, `RegionCurrent`, `BitsCover` |
| `RegionsNotShared` | `Spec => []RidInjective` | with `TypeInv` |
| `IdsNeverReused` | `Spec => FreshRegionIds` | with `TypeInv` |
| `MaintenanceIsLocal` | `Spec => OneTreeTouched` | with `TypeInv`, `RidInjective` |
| `SizesNeverShort` | `Spec => []SizesCover`, identity | `SizeInv` = `TypeInv`, `RidInjective`, `SizesCover` |
| `TreeCountsSafe` | `Spec => []TreeCountSafe`, identity | `TreeInv` = `TypeInv`, `TreeCountSafe` |
| `HistogramsDrift` | `Spec => []HistDrift`, identity | `HistInv` = `TypeInv`, `RidInjective`, every column keeps a row at every root, `Drifts` |

*The forest lemmas.* `Anc` is a least fixed point; from that follow transitivity
(`AncTransitive`), one step at a time (`AncStep`), linearity (`AncLinear`),
strictly rising levels (`AncLevel`), hence antisymmetry and a unique root
(`RootOfFacts`), hence that `Nearest` exists and is unique (`NearestExists`,
`NearestUnique`), and finally `RegionForLocal`: the region of a point depends on
the ids above it only. This last lemma is why a rebuild of one tree cannot move
the points of another.

*Why `DiscardSafe` is not inductive.* It says nothing of points whose predicate
no query mentions, nor of where a point will be moved next. `BitsCover` says
what the bitmaps owe each live point: the bit of its bucket at the region it
lies in, or the degradation of its column; and a rebuild recomputes bits from
`RegionFor`, not from `region_of`, so the two must agree: `RegionCurrent`. An
update sets a bit at `region_of[p]`, an insertion at `RegionFor`, a deletion only
removes an obligation, and a rebuild re-establishes everything
(`RebuildPresInv`).

*"Identity": why counts need `Internal[p] = p`.* `Delete(p)` tombstones
`Internal[p]` but subtracts at the tree of `p`; with another map the counts of two
trees drift apart, which is the third finding. A sequential build keeps the map
the identity. The proofs count with the cardinality facts of
`FiniteSetTheorems` (`CountUnion`, `CountRemove`): an insertion adds the points
below each bound ancestor, a deletion lowers the live count everywhere and the
stored one at the root only, so what lies below can only exceed.

*Drift.* A row is charged with one unit per update of its tree since the
last rebuild (`cntMod`), which is exactly what `on_update` leaves out; a
rebuild resets both sides. Two rows that shared an id would be charged twice,
hence `RidInjective`.

### 7.2 Driver: `OursMethodInc_proofs`

| Theorem | States | Inductive invariant |
|---|---|---|
| `DriverTypes` | `IncSpec => []IncTypeOK` | `IncInv` = `TypeInv`, `IncTypeOK` |
| `DriverImplementsStatistics` | `IncSpec => Spec` | each call is a step of `HistForest` or leaves it alone |
| `ArraysAlwaysFit` | `IncSpec => []ArraysFit` | `FitInv` adds `arrayRegions = nreg` |
| `SlicesStayCurrent` | `MaintSpec => []SlicesCurrent` | itself: whatever moves a point drops the slices |
| `StaleEndsSkips` | `IncSpec => []StaleNeverSkips` | itself |
| `DriverDiscardsSoundly` | `IncSpec => []DiscardSafe` | `DiscardSound` through the refinement |
| `SkipsAreSound` | `IncSpec => []HistSkipSafe`, two hypotheses | `HistInv`, `SizeInv`, `RegionCurrent`, `StaleNeverSkips`, `RowsFresh` |

`DriverImplementsStatistics` carries every theorem of 7.1 over to the driver.

`SkipsAreSound` assumes that the presence switch is left alone and that internal
ids are base ids. Both are needed: without the first, skips resume over rows that
updates bypassed (a hazard listed without property), without the second rows fall
below the live counts. What a query asks for is not restricted: atoms beyond the
edges, unknown categories and clauses that round away are in the model as what
they are, zeros without evidence, and the conclusion excepts the points they
concern. `RowsFresh` is the core: rows that are neither backed by bitmaps nor
marked stale have seen no update since they were counted, so by `HistDrift` they
miss nothing, and a zero in the row of an ancestor is a zero of live points.

`SlicesStayCurrent` is about `MaintSpec`, which makes no explicit
`inc_rebuild_tree`; with that call the property fails (finding 1).

### 7.3 Connected-domain search: `ConnectedDomain_proofs`

| Theorem | States | Inductive invariant |
|---|---|---|
| `SearchTypes` | `Spec => []TypeOK` | `TypeInv`: what the search holds lies in every set that contains the entry and that neither an edge nor a region leads out of |
| `EmptyRegionsNotEntered` | `Spec => []EmptyNotEntered` | with `TypeInv`: the regions around a crossing are not empty |
| `NoVisitedPointLost` | `Spec => []NoVisitedLost` | `KeepsTrack`: a visited satisfying point is settled or listed, the present round's list is evaluated |
| `SearchIsExhaustive` | `Spec => []Exhaustive` | `SearchInv`: `TypeInv`, `EmptyNotEntered`, `KeepsTrack` and `Covered`, below |
| `SearchImplementsPromise` | initial states and steps of `FilteredSearch` | `SearchInv` |

None of them has a hypothesis: they hold on every graph and region map and in
every setting, the default with member slices included.

*Why `Exhaustive` needs `Covered`.* It speaks of the end only. `Covered` follows
the search while the heap has room (`VisitedCovered`): a visited point waits, is
stranded, was crossed, or was walked on from, and then every neighbour is visited,
about to be looked at, or in a region known from elsewhere. A crossed empty region
has its outer rim known (`CrossingsCovered`), and nothing was shelved
(`NothingShelved`), because the stops of `spread_C` need a full heap. `Stamped`
holds whether there is room or not: a stamped region has no unvisited point
unless the sweep is still to take it, and only points of stamped regions are
stranded. At the end nothing waits, so the visited points with those of crossed
regions are closed under what `Followed(stranded)` follows.

*What may be missed.* `Exhaustive` names the two causes, and neither exception
can be dropped: `split_region` is a search that strands nothing, `stamped_region`
one in which every region is a single point. The forest builder's regions are
trees along fathers (`RegionsStayTrees`), but fathers need not be neighbours on
level 0: nothing in the build rules out a region that falls apart.

*The promise.* `stranded` is known at the end only, but what is owed must not
depend on the run: `KeepsPromise` owes what is followed past all of `MayStrand`,
which contains `stranded` (part of `Stamped`).

### 7.4 The other searches: `SearchMethods_proofs`

| Theorem | States |
|---|---|
| `MethodsTypes` | `Spec => []MethodsTypeOK` |
| `BeamIsClosed` | `Spec => []BeamClosed` |
| `NavixIsLocal` | `Spec => []NavixLocal` |
| `NavixEmptyIsRight` | `Spec => []NavixEmptyRight` |
| `TraversalIsExhaustive` | `Spec => []RegionExhaustive` |
| `WorstAloneHides` | `Spec => []OnlyWorstHides` |

All follow from one inductive invariant, `MethodsInv`:

- *settled points* (`BeamInv`): whatever was offered to the heap is a result or
  beaten by a full heap, and stays so (`NearestFacts`);
- *owed neighbours* (`BeamInv`): a result is still a candidate, or all the
  neighbours it owes (in `NavixSearch` the satisfying ones) were offered;
- *blind expansion* (`EmptyInv`): as long as it found nothing, all it met but
  the queue has its neighbours met as well;
- *known points* (`MetInv`, `NeighbourInv`): a point the traversal has measured
  is visited, in the flood or queued, unless only the descent measured it;
  and so is every neighbour of a visited point, but the overlooked and gated ones;
- *own keys* (`OwnKeys`): where satisfying points are queued when met, their key
  is their own distance. A key may also be a flood's; without this part
  the stop rule says nothing about results still queued, and `LAZY` mode, where
  it fails, is excepted from `OnlyWorstHides` for that reason.

### 7.5 Construction and builds: `ParallelInsert_proofs`, `Lifecycle_proofs`, `SearchEpochs_proofs`

| Theorem | States | Inductive invariant |
|---|---|---|
| `InsertionsNeverThrow` | `InsertSpec => []NeverThrows` | `InsertInv` |
| `FathersLieAbove` | `InsertSpec => []FathersAbove` | `InsertInv`, and the projection once it is made |
| `LayersAreConnected` | `InsertSpec => []LayersConnected` | `InsertInv`, `AllConnected` |
| `ModelsAreWhole` | `BuildSpec => []CalibWhole` | `BuildInv` |
| `RegionsStayTrees` | `Spec => []RegionsAreTrees` | `RegionsInv` |
| `EpochInvariant`, `EpochFresh` | `EpochSpec => []EpochInv`, `EpochSpec => MarksFresh` | `EpochInv` |
| `AnswersAreRight`, `AnswersStayRight` | `GtSpec => []GTRight`, `Spec => []GTRight` | `TruthInv` |
| `LifecycleTypes` | `Spec => []LifecycleTypeOK` | `InsertInv`, `BuildInv`, `EpochInv`, bounds of the counters |

The theorems about the construction hold for any number of points and threads,
any distances and any `MaxM` and `Efc` that `InsertAssumption` allows. The
corollary `LifecyclePromises` restates the first four and `MarksFresh` of the
union.

*`InsertInv`* relates the threads: no two insert the same point, none the entry
point; a thread that saw the entry point below its own level holds the global
lock, so the top it read is still the top; a point's blank layers have empty
lists, and no list names it there. The last fact is what the exceptions of
`mutuallyConnectNewElement` test. `SizesOK` bounds the lists (`SelectedIn`: a
selection is a part of what it is made from, and no larger than asked);
`PendingOK`, that a neighbour yet to be told does not name the new point, makes
an append add one. Fathers: `RefinedFather` covers both places that refine one,
for the new point and for a neighbour whose list is chosen anew.

*`AllConnected`* is about every moment: on each layer that is `Small` (its points
fit the list of one of them), whoever starts at a point that is linked there and
follows links reaches all that are linked. On such a layer no list is full when
a point is offered to it (`LinkGives`), so the heuristic acts on new points'
own lists only, and leaves each at least its nearest neighbour. It
counts the back-links that a thread still has to write (`Pending`): between the
write of a point's own list and the writes of its neighbours', the layer hangs
together only with what is owed, and at the end nothing is.

*`RegionsInv`*: the map of the forest builder is proved directly (fathers rise,
so the climb ends). The hub-Voronoi builder needs `GrowInv` for its queue: an
anchor has key 0, which nobody can beat; a point is assigned after its parent
and to the parent's region; an entry in the queue waits for its parent's region;
and parents among the assigned never go round. Stale entries of the lazy
priority queue are the danger, and these parts hold of them too.

*`BuildInv`*: a calibration file that is not torn was measured on the map it is
named for, whole if there was a column; and a process knows at each program
counter what it has loaded or made.

*`TruthInv`*: a file that is not torn answers its own predicate, for some number
of queries; that the header's number is the caller's (`Usable`) then fixes which.
While a call computes, a point or query that has not been dealt with is still in
some worker's chunk: `DealtFact` shows that the chunks, rounded up, leave none
out. One answer is right by `ScanFact`: after `n` points the heap holds the
nearest of those that satisfy, as many as fit (`KeepFact` is one iteration). The
scan is a recursive function; that it is defined at all is `ScanExists`. Both
lemmas consider the least `n` at which they would fail, since the library's
induction rule cannot be instantiated here.

*`MarksFresh`* alone is not inductive: it speaks of the first state of a search
only, while what could break it (a mark of a later epoch that survives a wrap)
arises in the middle of another. `EpochInv`: a running search has epochs above
0; no mark in a family outside `missed` is younger than the epoch; `shared` is
not in `missed`. It holds for every `Wrap8`, `Wrap32` above 1.

### 7.6 Only model-checked

- `KeepsPromise`'s end, `Ends`, `IndexBuilt`, `Recovers`: liveness under fairness
  is beyond the prover (so is `ENABLED`). The safety half of `KeepsPromise` is
  `SearchImplementsPromise`.
- The five violations of section 8.

Every invariant of a passing run is the statement of a theorem.

No module declares a `RECURSIVE` operator.


## 8 Disagreements between code and documents

Five runs look for a statement of the documents that the code does not keep;
`PROJECT.json` quotes both sides.

1. `rebuilt_slices`: `inc_rebuild_tree` neither replaces the searcher nor drops
   its tables when a rebuild adds no region; Algorithm 4 of `supplement.pdf`
   ends a rebuild with "refresh membership slices and region adjacency".
2. `packed_rids`, with presence bitmaps on: `pack_[].rid` is refreshed only when
   a searcher is made. A
   rebuild in `inc_update` or `inc_delete` that adds no region but retires one
   leaves points with the retired id, whose bitmap is empty, and the search
   drops such a point unseen.
3. `tombstones`: `HnswIndex::remove` translates the id before a function that
   translates again; after a parallel build another point is tombstoned.
4. `split_region`: `transp_core` lists one entry per region and search. If the
   points of a region are connected only through the empty region next to it,
   a best-first spread from that entry does not find the others, and the search
   ends short of K results. The proof of Theorem 4.1 in Appendix B of
   `supplement.pdf` claims that no closer satisfying point is missed.
5. `stamped_region`: `spread_B` over member slices stamps a neighbouring region
   as swept when none of its members is unvisited, although its only visited
   member may still wait in a list. The round that takes it from the list
   evaluates it and then skips its region because of the stamp, so its adjacency
   is never walked and what lies behind it is not reached: the search ends short
   of K results with a reachable satisfying point missing, which Appendix B
   excludes.

`SearchIsExhaustive` (section 7) proves that 4 and 5 are the only two ways in
which a search that ends short of K results misses a satisfying point connected
to its entry.

## 9 What is not modelled

- Floating point: values are buckets, and `sigma_hat` is left out as a number.
  What is kept of it is when it is zero (3.2), with the edges and the clamping as
  the difference between `vals` and `counted`, and rounding as any set of clauses.
- The discard test on errors and the storage budget: any outcome.
- The single-layer constructor of the statistics and the order in which the
  multi-layer constructor fills `lmat_max_n` and `lmat_trees`.
- Of `OursSearch`: the forced modes of the connected-domain search, and counters,
  snapshots and traces.
- The cost model's estimates: they choose between admissible traversals.
- hnswlib: updates in place, replacement of deleted points, growth of the
  capacity. `HistForest` takes fathers and tombstones from
  it as constants and as `deleted`; what it assumes of fathers is `FathersAbove`.
- Formatting of cache names, so that two predicates with one name are not seen.
- File input, data generation, metrics, baseline adapters: sequential or external.

## 10 Plan

What is left, most valuable first; ⊢ marks proofs.

1. ⊢ `PointTable` — what the statistics promise: a table of live points with values
   and an oracle that may answer "empty" only for regions without satisfying
   points; `HistForest` implements it.
2. ⊢ `FilteredSearch` as the abstraction of `BeamSearch` and `RegionTraversal` too,
   with what each gives up stated as a weaker promise.
3. ⊢ What reselected lists keep of a large layer in `ParallelInsert`: which points
   can lose their last link, and how many.
4. The constructor of the statistics in steps: candidate order, `lmat_max_n`
   against `lmat_trees`, the discard test with its budget.
5. Graphs of six points for `ConnectedDomain`, where a region of three can be half
   visited.
