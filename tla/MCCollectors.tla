---------------------------- MODULE MCCollectors ----------------------------
(* Instances of Collectors for TLC. *)
EXTENDS Collectors

\* Two circuits that statsd and Graphite cannot tell apart.
MCName == {<<"a", "/", "b">>, <<"a", ".", "b">>}
MCOpened == {<<"a", "/", "b">>}
MCRegistered == <<"default", "statsd", "datadog", "graphite", "prometheus">>
Symmetry == Permutations(Proc)
=============================================================================
