------------------------------ MODULE Extensions ------------------------------
(***************************************************************************)
(* How the extensions are loaded at start-up (internal/extensions/         *)
(* registry.go, loader.go): from the system's directory, then the user's,  *)
(* and put in an order by a depth-first search that starts wherever Go's   *)
(* map iteration starts.  What a loaded extension's behaviours do is in    *)
(* Triggers.                                                               *)
(***************************************************************************)
EXTENDS Naturals, Sequences, FiniteSets, SequencesExt

CONSTANTS
  Extension,    \* the names extensions have or require
  SystemDir,    \* what the system's directory holds for some of them: a function to
                \*   "broken" or to the sequence of extensions that one requires
  UserDir       \* likewise the user's directory

Broken == "broken"

ASSUME ExtensionConstants ==
  \A dir \in {SystemDir, UserDir} :
    /\ DOMAIN dir \subseteq Extension
    /\ \A e \in DOMAIN dir : dir[e] # Broken => dir[e] \in Seq(Extension)

VARIABLES
  exts,       \* the extensions loaded, from names to what each requires
  visit,      \* state: "unvisited", "visiting" or "visited" for each name
  path,       \* the calls of dfs in progress: [name, deps, ok]
  order,      \* result, later r.order
  cycled,     \* cycledSet
  loading     \* "dirs", "sort" or "loaded"

extensionVars == <<exts, visit, path, order, cycled, loading>>

LoadableIn(dir) == {e \in DOMAIN dir : dir[e] # Broken}

(* An extension of the user that cannot be loaded leaves the system's.     *)
LoadDirs ==
  [e \in LoadableIn(SystemDir) \cup LoadableIn(UserDir) |->
     IF e \in LoadableIn(UserDir) THEN UserDir[e] ELSE SystemDir[e]]

ExtensionInit ==
  /\ exts = <<>> /\ visit = [e \in Extension |-> "unvisited"]
  /\ path = <<>> /\ order = <<>> /\ cycled = {} /\ loading = "dirs"

LoadDir ==
  /\ loading = "dirs"
  /\ exts' = LoadDirs
  /\ loading' = "sort"
  /\ UNCHANGED <<visit, path, order, cycled>>

Call(e) == [name |-> e, deps |-> exts[e], ok |-> TRUE]
Visit(e) == visit' = [visit EXCEPT ![e] = "visiting"]

SortFrom(e) ==
  /\ loading = "sort" /\ path = <<>>
  /\ e \in DOMAIN exts /\ visit[e] = "unvisited"
  /\ Visit(e)
  /\ path' = <<Call(e)>>
  /\ UNCHANGED <<exts, order, cycled, loading>>

(* The next requirement of the extension being visited.  *)
Current == path[Len(path)]
Onward(call, ok) == [name |-> call.name, deps |-> Tail(call.deps), ok |-> call.ok /\ ok]
After(ok) == [path EXCEPT ![Len(path)] = Onward(Current, ok)]
OnPath == {i \in DOMAIN path : path[i].name = Head(Current.deps)}

Seen(e) == visit[e] # "unvisited"     \* variant
Finished(e) == visit[e] = "visited"

Requirement ==
  /\ path # <<>> /\ Current.deps # <<>>
  /\ LET dep == Head(Current.deps) IN
       \/ /\ Finished(dep)      \* also one that was not put in the order
          /\ path' = After(TRUE)
          /\ UNCHANGED <<visit, cycled>>
       \/ /\ visit[dep] = "visiting" /\ ~Finished(dep)
          /\ path' = After(FALSE)
          /\ cycled' = cycled \cup {path[i].name : i \in (CHOOSE i \in OnPath : TRUE)..Len(path)}
          /\ UNCHANGED visit
       \/ /\ visit[dep] = "unvisited" /\ dep \notin DOMAIN exts
          /\ visit' = [visit EXCEPT ![dep] = "visited"]
          /\ path' = After(TRUE)
          /\ UNCHANGED cycled
       \/ /\ visit[dep] = "unvisited" /\ dep \in DOMAIN exts
          /\ Visit(dep)
          /\ path' = Append(path, Call(dep))
          /\ UNCHANGED cycled
  /\ UNCHANGED <<exts, order, loading>>

Visited ==
  /\ path # <<>> /\ Current.deps = <<>>
  /\ visit' = [visit EXCEPT ![Current.name] = "visited"]
  /\ order' = IF Current.ok THEN Append(order, Current.name) ELSE order
  /\ path' = IF Len(path) = 1 THEN <<>>
             ELSE Append(SubSeq(path, 1, Len(path) - 2), Onward(path[Len(path) - 1], Current.ok))
  /\ UNCHANGED <<exts, cycled, loading>>

(* The order, once the names that are not kept have been left out of its   *)
(* first n.                                                                *)
Filtered(kept) ==
  LET filtered[n \in Nat] ==
        IF n = 0 THEN <<>>
        ELSE IF order[n] \in kept THEN Append(filtered[n - 1], order[n])
        ELSE filtered[n - 1]
  IN  filtered

(* The extensions found on a cycle leave the registry and the order; those *)
(* that only depend on one stay in the registry, outside the order.        *)
Sorted ==
  /\ loading = "sort" /\ path = <<>>
  /\ \A e \in DOMAIN exts : visit[e] = "visited"
  /\ exts' = [e \in DOMAIN exts \ cycled |-> exts[e]]
  /\ order' = Filtered(DOMAIN exts \ cycled)[Len(order)]
  /\ loading' = "loaded"
  /\ UNCHANGED <<visit, path, cycled>>

LoadAll ==
  LoadDir \/ (\E e \in Extension : SortFrom(e)) \/ Requirement \/ Visited \/ Sorted

-----------------------------------------------------------------------------
(* Whatever map order the search was started in: an extension comes after  *)
(* every one it requires that is in the order too, nothing comes twice,    *)
(* and an extension that requires no cycle, however indirectly, is there.  *)
Closed(S) == \A e \in S \cap DOMAIN LoadDirs : ToSet(LoadDirs[e]) \subseteq S
Required(e) ==
  {d \in Extension : \A S \in SUBSET Extension : ToSet(LoadDirs[e]) \subseteq S /\ Closed(S) => d \in S}
OnCycle(e) == e \in Required(e)
Sound ==
  {e \in DOMAIN LoadDirs : \A d \in (Required(e) \cup {e}) \cap DOMAIN LoadDirs : ~OnCycle(d)}

DependenciesFirst ==
  /\ \A i, j \in DOMAIN order : i < j =>
       /\ order[i] # order[j]
       /\ order[j] \notin ToSet(exts[order[i]])
  /\ loading = "loaded" =>
       /\ ToSet(order) \subseteq DOMAIN exts
       /\ Sound \subseteq ToSet(order)
=============================================================================
