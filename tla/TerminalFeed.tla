---------------------------- MODULE TerminalFeed ----------------------------
(***************************************************************************)
(* What the desktop terminal promises its reader: the chunks a process      *)
(* prints reach the terminal's store in order, and a chunk is passed over   *)
(* only if the terminal has said that earlier output was truncated.         *)
(* TerminalStream implements it.                                            *)
(***************************************************************************)
EXTENDS Naturals

VARIABLES
    produced,   \* number of chunks the process has printed
    cursor,     \* number of the last chunk the store counts as shown
    reported    \* every chunk below this one was announced as truncated

feedVars == <<produced, cursor, reported>>

FeedInit == produced = 0 /\ cursor = 0 /\ reported = 0

\* The process prints one more chunk.
Produce ==
    /\ produced' = produced + 1
    /\ UNCHANGED <<cursor, reported>>

\* The terminal announces that the chunks below e are gone.
Announce(e) ==
    /\ e > reported /\ e <= produced
    /\ reported' = e
    /\ UNCHANGED <<produced, cursor>>

\* Chunk s is shown: the next one, or one behind an announced truncation.
Show(s) ==
    /\ s > cursor /\ s <= produced
    /\ s = cursor + 1 \/ s <= reported
    /\ cursor' = s
    /\ UNCHANGED <<produced, reported>>

FeedNext ==
    \/ Produce
    \/ \E e \in 1 .. produced : Announce(e) \/ Show(e)

FeedSpec == FeedInit /\ [][FeedNext]_feedVars
=============================================================================
