---------------------------- MODULE MCPodLifecycle ----------------------------
(* Small instances of PodLifecycle. *)
EXTENDS PodLifecycle, TLC

Symmetry == Permutations(Pods) \union Permutations(Specs) \union Permutations(Addrs)

\* VIEW of the runs about trust: what some action or some property of theirs
\* reads.  Left out are the settings with which a Pod was or will be requested,
\* and the desiredStatus of a Pod that has been judged.
ReadForTrust ==
    <<status, addr, late # None, disk, tunnel, pc, op, want, sel,
      IF pc \in {"adopt", "judge"} THEN snap ELSE None, fresh, host, resume, expired, errors>>

\* VIEW of the run about the end of operations: whose ssh has accepted a key is
\* left out, too, but not the settings.
ReadForEnds ==
    <<status, spec, addr, late, podId, podSpec, endpoint, known, env, failure, tunnel,
      pc, op, want, sel,
      IF pc \in {"adopt", "judge"} THEN snap ELSE None, fresh, host, resume, expired, errors>>
=============================================================================
