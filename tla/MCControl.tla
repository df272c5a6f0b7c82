----------------------------- MODULE MCControl -----------------------------
(* A small instance of Control for TLC. *)
EXTENDS Control

CONSTANTS s1, s2

\* s1 changes its mode between boots; s2 comes up as live without announcing it and
\* without its strategy,
MCDeployments == {[sid |-> s1, mode |-> "sandbox", told |-> TRUE, loaded |-> TRUE],
                  [sid |-> s1, mode |-> "live", told |-> TRUE, loaded |-> TRUE],
                  [sid |-> s2, mode |-> "live", told |-> FALSE, loaded |-> FALSE]}

\* having been there as sandbox twice before.
MCPast == LET s2Before == [sid |-> s2, mode |-> "sandbox", told |-> TRUE, loaded |-> TRUE]
          IN  <<s2Before, s2Before>>

MCRequests == {[who |-> "sandbox", action |-> "pause", to |-> s1],
               [who |-> "live", action |-> "resume", to |-> s1],
               [who |-> "sandbox", action |-> "ping", to |-> s2],
               [who |-> "cli", action |-> "report", to |-> All]}
=============================================================================
