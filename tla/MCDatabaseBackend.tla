------------------------- MODULE MCDatabaseBackend -------------------------
(***************************************************************************)
(* Instances of DatabaseBackend for TLC: two processes that dispatch jobs  *)
(* of one identity and other bytes, or of one digest and other identities, *)
(* and a continuation of whatever the first process runs.                  *)
(***************************************************************************)
EXTENDS DatabaseBackend, TLC

MCProc == "d1" :> "p1" @@ "d2" :> "p2" @@ "d3" :> "p2" @@ "c" :> "p1"
MCIdentity == "d1" :> "id" @@ "d2" :> "id" @@ "d3" :> "other" @@ "c" :> "none"
MCDigest == "d1" :> "x" @@ "d2" :> "y" @@ "d3" :> "x" @@ "c" :> "y"

Deployment(starters, stoppers, managed, calls, old, claimed) ==
  [starters |-> starters, stoppers |-> stoppers, managed |-> managed,
   calls |-> calls, schema |-> old, claimed |-> claimed]

Both == {"p1", "p2"}

\* Two processes start on what an older release left, or one starts and a
\* caller-managed peer with it.
Upgrades ==
  {Deployment(Both, {"p1"}, {}, {"d2"}, old, {}) :
     old \in {{}, {"jobs", "locks"}, {"jobs", "locks", "token"}}}
  \cup {Deployment(Both, {}, {"p2"}, {"d2"}, old, {}) : old \in {{}, {"jobs", "locks"}}}

\* Two producers of one identity or of one digest; an older release may hold
\* the digest of one of them.
Claims ==
  {Deployment({"p1"}, {}, {}, {"d1", "d2"}, Artefacts, claimed) : claimed \in {{}, {"y"}}}
  \cup {Deployment({"p1"}, {}, {}, {"d1", "d3"}, Artefacts, {})}

\* A process stops while its handler dispatches.
Drains == {Deployment({"p1"}, {"p1"}, {}, {"d1", "c"}, Artefacts, {})}

MCScenes == Upgrades \cup Claims \cup Drains
=============================================================================
