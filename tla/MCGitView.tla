----------------------------- MODULE MCGitView -----------------------------
(* Small instances of GitView for TLC. *)
EXTENDS GitView

AllDomains == {"status", "refs", "history"}
BackgroundDomains == {"status", "refs"}

\* Of git_metadata_domains: the logs, HEAD and the refs, the config.
LogsRefsConfig ==
  {[domains |-> {"history"}, hashed |-> FALSE],
   [domains |-> {"status", "refs", "history"}, hashed |-> TRUE],
   [domains |-> {"refs"}, hashed |-> FALSE]}

Allow(changes, edits, commands, switches, losses, surfaces, failures, readers) ==
  [change |-> changes, edit |-> edits, command |-> commands, switch |-> switches,
   loss |-> losses, surface |-> surfaces, failure |-> failures, reader |-> readers]

\* What happens around a change: a lost connection, a surface that is opened, an edit and a
\* failure, a command.  Two changes around a switch, or beside the queries of another client.
\* A switch with a loss.  Two edits whose path filter fails twice, and one beside a command.
Profiles ==
  {Allow(2, 0, 0, 1, 0, 0, 0, 0), Allow(1, 0, 0, 0, 1, 0, 0, 0), Allow(0, 1, 0, 1, 1, 0, 0, 0),
   Allow(1, 0, 0, 0, 0, 1, 0, 0), Allow(1, 1, 0, 0, 0, 0, 1, 0), Allow(0, 2, 0, 0, 0, 0, 2, 0),
   Allow(1, 0, 1, 0, 0, 0, 0, 0), Allow(0, 1, 1, 0, 0, 0, 0, 0), Allow(2, 0, 0, 0, 0, 0, 0, 1),
   Allow(1, 0, 0, 0, 0, 0, 1, 1)}

\* One switch to another project and back, a change before it and one after it.
Rebind == {Allow(2, 0, 0, 1, 0, 0, 0, 0)}
=============================================================================
