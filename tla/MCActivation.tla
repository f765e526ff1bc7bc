----------------------------- MODULE MCActivation -----------------------------
(* A small instance of Activation. *)
EXTENDS Activation

\* VIEW: what some action or some property reads.  Left out are what llm-up has
\* printed, once it has ended, and whether a restart was canceled that nobody
\* waits for; the errors of llm-down and the units that llm-up has started
\* meanwhile are one, since only DownStaysDown reads either.
ReadLater ==
    <<socket, proxy, failing, invocation, jobs,
      IF at = "restarting" THEN canceled ELSE canceled \ {"restart"},
      step, errors.proxy, errors.cli \/ touched, lock, runtime, failure, conn,
      at, initial, seen, since, fresh, leftover>>
===============================================================================
