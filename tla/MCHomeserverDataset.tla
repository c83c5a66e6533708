------------------------ MODULE MCHomeserverDataset -------------------------
\* A model-checking instance of HomeserverDataset: three tasks in two processes, of which
\* a behaviour takes two: those that share a process, with the polling watcher, or two of
\* different processes, with the reader. Every step is a step of HomeserverDataset's Next.
\* The latter behaviours are bounded by two writes of the head.
EXTENDS HomeserverDataset, TLC

CONSTANTS d1, d2, a, b, t1, t2, t3, pr1, pr2

\* One state of two objects and one of a single object, sharing a path.
MCContents == d1 :> {a, b} @@ d2 :> {a}

MCProcessOf == t1 :> pr1 @@ t2 :> pr1 @@ t3 :> pr2

VARIABLE focus      \* what a behaviour is about

MCvars == <<focus, vars>>

MCInit == Init /\ focus \in {"tasks", "processes"}

MCNext ==
    /\ UNCHANGED focus
    /\ \/ LateHead
       \/ \E proc \in Processes : Crash(proc)
       \/ /\ focus = "tasks"
          /\ \/ \E t \in {t1, t2} : Publish(t)
             \/ \E w \in Watchers : Poll(w)
       \/ /\ focus = "processes"
          /\ \/ \E t \in {t1, t3} : Publish(t)
             \/ \E r \in Readers, path \in Path : GetHead(r, path)
             \/ \E r \in Readers : GetManifest(r) \/ GetObject(r)
    /\ focus = "processes" => Len(log') <= 2

MCSpec == /\ MCInit /\ [][MCNext]_MCvars
          /\ \A w \in Watchers : WF_MCvars(focus = "tasks" /\ UNCHANGED focus /\ Poll(w))

\* WatcherCatchesUp, for the behaviours in which the watchers poll.
WatchersCatchUp == focus = "tasks" => WatcherCatchesUp
=============================================================================
