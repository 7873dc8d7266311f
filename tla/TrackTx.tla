-------------------------------- MODULE TrackTx --------------------------------
(***************************************************************************)
(* submit$ of client: a transaction is validated at the tips of the chain, *)
(* then broadcast, looked for in every branch by trackTx of                *)
(* observable-client, and reported as the best and finalized blocks        *)
(* change. The pinned blocks are those of PinnedBlocks, without stops but  *)
(* one that the client does not recover from. One step is one event of     *)
(* the chain, one answer of the node or one timer.                         *)
(*                                                                         *)
(* heldBlocks is one map for all the transactions of a client, with one    *)
(* hold per block. One transaction is followed from its submission to its  *)
(* end; of the others, one at a time is tracked, and what is seen of it    *)
(* are the holds it adds to the map and takes from it.                     *)
(***************************************************************************)
EXTENDS Naturals, Sequences, FiniteSets, FiniteSetsExt

CONSTANTS ParentOf,     \* the parent of each block; Root has none
          Inclusions,   \* sets of blocks that may include the transaction
          Invalidities, \* sets of blocks at which it may be invalid
          MaxOthers    \* bound: other transactions of the client

Root    == 0
Blocks  == DOMAIN ParentOf
All     == Blocks \cup {Root}
NoBlock == Len(ParentOf) + 1

\* A block and its ancestors.
Line[b \in All] == {b} \cup IF b = Root THEN {} ELSE Line[ParentOf[b]]
Height(b)       == Cardinality(Line[b]) - 1
Descendants(b)  == {c \in All : b \in Line[c]}

ASSUME TrackAssumption ==
    /\ ParentOf \in Seq(Nat) /\ Blocks # {}
    /\ \A b \in Blocks : ParentOf[b] \in 0 .. b - 1
    /\ Inclusions \subseteq SUBSET Blocks
    /\ Invalidities \subseteq SUBSET All
    /\ MaxOthers \in Nat

VARIABLES
    included, invalid,   \* what the chain thinks of the transaction
    \* the pinned blocks of the client
    arrived,     \* blocks that were ever announced
    pinned,      \* those the client still has
    pruned,      \* those it knows to be pruned
    best, finalized,
    cleanup,     \* the clean-up timer is armed
    releasing,   \* holds whose release waits for its timer
    \* submit$
    phase,       \* validating, tracking, finalized, invalid, stopped
    validating,  \* tips whose validation is under way
    verdicts,    \* the validations that answered: valid, invalid
    \* trackTx
    present,     \* alreadyPresent
    held,        \* heldBlocks, and the blocks that an analysis reads: its
                 \* operations hold them by themselves
    track,       \* the analysis of each block
    others,      \* other transactions so far
    other,       \* another transaction is tracked
    leaked,      \* blocks with a hold that the map has lost
    robbed,      \* the other one released what this one waits for
    \* computeState
    latest       \* latestAnalyzed

chainVars == <<included, invalid, arrived, best, finalized>>
pinVars   == <<pinned, pruned, cleanup>>
validVars == <<validating, verdicts>>
trackVars == <<present, held, track, latest>>
otherVars == <<others, other, leaked, robbed>>
vars == <<chainVars, pinVars, releasing, phase, validVars, trackVars, otherVars>>

Analyzing == {"body", "events", "validity"}
Analyzed  == {"passed", "found", "failing"}

TypeOK ==
    /\ included \in Inclusions /\ invalid \in Invalidities
    /\ {arrived, pinned, pruned, releasing, validating, present, held, leaked}
         \subseteq SUBSET All
    /\ {best, finalized} \subseteq All
    /\ {cleanup, other, robbed} \subseteq BOOLEAN
    /\ phase \in {"validating", "tracking", "finalized", "invalid", "stopped"}
    /\ verdicts \subseteq BOOLEAN
    /\ track \in [All -> {"none", "cut"} \cup Analyzing \cup Analyzed]
    /\ latest \in All \cup {NoBlock}
    /\ others \in 0 .. MaxOthers

\* getTipsFromHeight
Tips(blocks) ==
    LET leaves  == {b \in blocks : ~\E c \in blocks \ {Root} : ParentOf[c] = b}
        highest == Max({Height(b) : b \in leaves})
    IN  {Root} \cup {b \in leaves : Height(b) + 1 >= highest}

\* Block 1 may be there when the transaction is submitted.
Init ==
    /\ included \in Inclusions /\ invalid \in Invalidities
    /\ \E n \in 0 .. 1 : arrived = 0 .. n
    /\ pinned = arrived
    /\ pruned = {} /\ releasing = {} /\ cleanup = FALSE
    /\ best = Root /\ finalized = Root
    /\ phase = "validating"
    /\ validating = Tips(arrived)
    /\ verdicts = {}
    /\ present = {} /\ held = {}
    /\ track = [b \in All |-> "none"]
    /\ latest = NoBlock
    /\ others = 0 /\ other = FALSE /\ leaked = {} /\ robbed = FALSE

-------------------------------------------------------------------------------
(***************************************************************************)
(* computeState: what is known of the best chain is what the first         *)
(* analysed block below the best one says.                                 *)
(***************************************************************************)

\* The walk goes from block to parent as long as the block is pinned.
FirstAnalyzed(t, pins, b) ==
    LET met == {a \in Line[b] :
                  /\ t[a] \in Analyzed
                  /\ \A c \in Line[b] \ Line[a] : c \in pins /\ t[c] \notin Analyzed}
    IN  IF met = {} THEN NoBlock ELSE Max(met)

\* Mutant: a block in any branch will do.
NextStateAnyBranch(t, b, f, h) ==
    LET met == {x \in All : t[x] = "found"}
        a == IF met = {} THEN FirstAnalyzed(t, pinned, b) ELSE Max(met)
        done == a # NoBlock /\ Height(a) <= Height(f)
    IN  /\ track' = t
        /\ latest' = IF a = NoBlock THEN latest ELSE a
        /\ phase' = IF done /\ t[a] = "found" THEN "finalized"
                    ELSE IF done /\ t[a] = "failing" THEN "invalid"
                    ELSE phase
        /\ held' = IF phase' = phase THEN h ELSE {}
        /\ releasing' = releasing \cup (held \ held')

\* computeNextState, with the analysis t, the best block b and the finalized f.
\* The holds are those in h, or none if it ends the transaction: all that are in
\* the map are released, whoever added them.
NextState(t, b, f, h) ==
    LET a == FirstAnalyzed(t, pinned, b)
        done == a # NoBlock /\ Height(a) <= Height(f)
    IN  /\ track' = t
        /\ latest' = IF a = NoBlock THEN latest ELSE a
        /\ phase' = IF done /\ t[a] = "found" THEN "finalized"
                    ELSE IF done /\ t[a] = "failing" THEN "invalid"
                    ELSE phase
        /\ held' = IF phase' = phase THEN h ELSE {}
        /\ releasing' = releasing \cup (held \ held')

-------------------------------------------------------------------------------
(***************************************************************************)
(* Validation.                                                             *)
(***************************************************************************)
Verdict(b) ==
    /\ phase = "validating"
    /\ b \in validating
    /\ verdicts' = verdicts \cup {b \notin invalid}
    /\ validating' = IF b \in invalid THEN validating \ {b} ELSE {}
    /\ UNCHANGED <<chainVars, pinVars, releasing, phase, trackVars, otherVars>>

\* The validations are over: the transaction is broadcast and tracked, unless
\* some answer was negative and none positive.
Submit ==
    /\ phase = "validating"
    /\ validating = {}
    /\ IF verdicts = {FALSE}
         THEN phase' = "invalid" /\ UNCHANGED trackVars
         ELSE /\ phase' = "tracking"
              /\ present' = pinned
              /\ track' = [b \in All |->
                   IF b \in pinned \cap Descendants(finalized) THEN "passed" ELSE "none"]
              /\ latest' = best
              /\ UNCHANGED held
    /\ UNCHANGED <<chainVars, pinVars, releasing, validVars, otherVars>>

\* What was synchronous is over before the next event.
Quiet == phase = "validating" => validating # {}

-------------------------------------------------------------------------------
(***************************************************************************)
(* The chain, as the pinned blocks of the client show it.                  *)
(***************************************************************************)
\* A new block is held, and analysed if its parent already was. If two transactions
\* are tracked, both hold it, and the map keeps one of the two holds.
NewBlock ==
    /\ Quiet
    /\ \E b \in Blocks \ arrived :
        /\ ParentOf[b] \in pinned /\ finalized \in Line[ParentOf[b]]
        /\ arrived' = arrived \cup {b}
        /\ pinned' = pinned \cup {b}
        /\ held' = IF phase = "tracking" \/ other THEN held \cup {b} ELSE held
        /\ leaked' = IF phase = "tracking" /\ other THEN leaked \cup {b} ELSE leaked
        /\ track' = IF phase = "tracking" /\ track[ParentOf[b]] = "passed"
                      THEN [track EXCEPT ![b] = "body"] ELSE track
    /\ UNCHANGED <<included, invalid, best, finalized, pruned, cleanup,
                   releasing, phase, validVars, present, latest, others, other, robbed>>

BestBlockChanges ==
    /\ Quiet
    /\ \E b \in arrived \ {best} :
        /\ finalized \in Line[b]
        /\ best' = b
        /\ IF phase = "tracking"
             THEN NextState(track, b, finalized, held)
             ELSE UNCHANGED <<track, latest, phase, held, releasing>>
    /\ UNCHANGED <<included, invalid, arrived, finalized, pinVars, validVars,
                   present, otherVars>>

\* One or more blocks are finalized: analyses of pruned blocks end and their
\* holds are released, if any transaction is tracked. The race of each validation
\* compares the finalized block with itself: it gives up a tip that is below, pruned
\* or not.
Finalizes ==
    /\ Quiet
    /\ \E f \in Line[best] \ Line[finalized] :
        LET gone == {c \in pinned : c \notin Line[f] /\ f \notin Line[c]}
            t    == [b \in All |-> IF b \in gone /\ track[b] \in Analyzing
                                     THEN "cut" ELSE track[b]]
        IN  /\ finalized' = f
            /\ pruned' = pruned \cup gone
            /\ cleanup' = TRUE
            /\ validating' = {b \in validating : Height(b) >= Height(f)}
            /\ IF phase = "tracking"
                 THEN NextState(t, best, f, held \ gone)
                 ELSE /\ held' = held \ gone
                      /\ releasing' = releasing \cup (held \cap gone)
                      /\ UNCHANGED <<track, latest, phase>>
    /\ UNCHANGED <<included, invalid, arrived, best, pinned, verdicts, present,
                   otherVars>>

Useless(b) == b \in pruned \/ Height(b) < Height(finalized)

CleanUp ==
    /\ cleanup
    /\ cleanup' = FALSE
    /\ pinned' = {b \in pinned : Useless(b) => b \in held \cup releasing \cup leaked}
    /\ UNCHANGED <<chainVars, pruned, releasing, phase, validVars, trackVars, otherVars>>

\* The timer with which holdBlock delays a release.
ReleaseHold(b) ==
    /\ b \in releasing
    /\ releasing' = releasing \ {b}
    /\ pinned' = IF Useless(b) /\ b \notin held \cup leaked THEN pinned \ {b} ELSE pinned
    /\ UNCHANGED <<chainVars, pruned, cleanup, phase, validVars, trackVars, otherVars>>

-------------------------------------------------------------------------------
(***************************************************************************)
(* trackTx                                                                 *)
(***************************************************************************)
BodyComes(b) ==
    /\ phase = "tracking" /\ track[b] = "body"
    /\ track' = [track EXCEPT ![b] = IF b \in included THEN "events" ELSE "validity"]
    /\ UNCHANGED <<chainVars, pinVars, releasing, phase, validVars, present,
                   held, latest, otherVars>>

\* The branch is settled: nothing above the block is needed any more.
EventsCome(b) ==
    /\ phase = "tracking" /\ track[b] = "events"
    /\ NextState([track EXCEPT ![b] = "found"], best, finalized,
                 held \ Descendants(b))
    /\ UNCHANGED <<chainVars, pinVars, validVars, present, otherVars>>

\* Mutant: the children that arrived meanwhile are forgotten.
ValidityComesForgetful(b) ==
    /\ phase = "tracking" /\ track[b] = "validity"
    /\ IF b \in invalid
         THEN NextState([track EXCEPT ![b] = "failing"], best, finalized,
                        held \ Descendants(b))
         ELSE NextState([track EXCEPT ![b] = "passed"], best, finalized,
                        held \ {b})
    /\ UNCHANGED <<chainVars, pinVars, validVars, present, otherVars>>

\* It is not in this block. If it is not invalid either, its children are next.
ValidityComes(b) ==
    /\ phase = "tracking" /\ track[b] = "validity"
    /\ IF b \in invalid
         THEN NextState([track EXCEPT ![b] = "failing"], best, finalized,
                        held \ Descendants(b))
         ELSE LET next == {c \in pinned \ {Root} : ParentOf[c] = b}
              IN  NextState([c \in All |->
                               IF c = b THEN "passed"
                               ELSE IF c \in next \ pruned THEN "body"
                               ELSE IF c \in next THEN "cut"
                               ELSE track[c]],
                            best, finalized, (held \ {b}) \cup (next \ pruned))
    /\ UNCHANGED <<chainVars, pinVars, validVars, present, otherVars>>

\* The subscription was lost for good, or the user gives up.
Stop ==
    /\ phase \in {"validating", "tracking"}
    /\ phase' = "stopped"
    /\ held' = {} /\ validating' = {}
    /\ releasing' = releasing \cup held
    /\ UNCHANGED <<chainVars, pinVars, verdicts, present, track, latest, otherVars>>

-------------------------------------------------------------------------------
(***************************************************************************)
(* Another transaction of the client.                                      *)
(***************************************************************************)
OtherStarts ==
    /\ Quiet /\ ~other /\ others < MaxOthers
    /\ others' = others + 1
    /\ other' = TRUE
    /\ UNCHANGED <<chainVars, pinVars, releasing, phase, validVars, trackVars, leaked,
                   robbed>>

\* What it still holds: blocks that arrived while it was tracked.
Theirs == IF phase = "tracking"
            THEN {b \in held \cap (present \cup leaked) : track[b] \notin Analyzing}
            ELSE held

\* It is done with a block.
OtherReleases(b) ==
    /\ Quiet /\ other
    /\ b \in Theirs
    /\ held' = held \ {b}
    /\ releasing' = releasing \cup {b}
    /\ UNCHANGED <<chainVars, pinVars, phase, validVars, present, track, latest, otherVars>>

\* It releases what is in the map, also what only the first one waits for.
OtherEnds ==
    /\ Quiet /\ other
    /\ other' = FALSE
    /\ held' = {b \in held : phase = "tracking" /\ track[b] \in Analyzing}
    /\ releasing' = releasing \cup (held \ held')
    /\ robbed' = (robbed \/ ~((held \ held') \subseteq Theirs))
    /\ UNCHANGED <<chainVars, pinVars, phase, validVars, present, track, latest, others, leaked>>

Answer(b) == Verdict(b) \/ BodyComes(b) \/ EventsCome(b) \/ ValidityComes(b)

Next ==
    \/ \E b \in All : Answer(b) \/ ReleaseHold(b) \/ OtherReleases(b)
    \/ Submit \/ CleanUp \/ Stop \/ OtherStarts \/ OtherEnds
    \/ NewBlock \/ BestBlockChanges \/ Finalizes

\* The node answers, and timers fire. The chain may stand still; while it does, what
\* is owed comes to an end.
Owing == Submit \/ CleanUp \/ \E b \in All : Answer(b) \/ ReleaseHold(b)

Fairness == WF_vars(Owing)

Spec == Init /\ [][Next]_vars /\ Fairness

-------------------------------------------------------------------------------
\* A block is pinned as long as its analysis goes on, also if it is finalized and
\* left behind meanwhile, and so are the blocks that may still be finalized.
AnalyzedIsPinned ==
    phase = "tracking" =>
        \A b \in All :
            /\ track[b] \in Analyzing => b \in pinned
            /\ b \in arrived \ pruned /\ b \in Descendants(finalized) => b \in pinned

\* "This shouldn't happen" of computeNextState does not happen once it started,
\* unless another transaction let go of a block that waits to be analysed.
StateIsComputable ==
    phase = "tracking" /\ ~robbed => FirstAnalyzed(track, pinned, best) # NoBlock

\* The blocks that came after the ones from which the tracking started.
Fresh == {b \in All \ present : \E a \in Line[b] \cap present : track[a] = "passed"}

\* What the user last heard is true: the block that includes the transaction is
\* on the best chain, and when every new block of the best chain is analysed,
\* it is reported exactly if one of them includes it.
ReportIsRight ==
    phase = "tracking" /\ ~robbed =>
        /\ track[latest] = "found" => latest \in included \cap Line[best]
        /\ (\A b \in Line[best] \cap Fresh : track[b] \in Analyzed) =>
             (included \cap Line[best] \cap Fresh # {} <=> track[latest] = "found")

\* A transaction is reported as finalized only in a finalized block.
FinalizedIsFinal ==
    phase = "finalized" => latest \in included \cap Line[finalized]

\* Blocks are held while a transaction is tracked and only if they are neither pruned
\* nor done with. What is useless is then unpinned, unless its hold got lost, which
\* happens to the blocks that arrive while two transactions are tracked.
NoHoldLeaks ==
    /\ phase # "tracking" /\ ~other => held = {}
    /\ held \cap pruned = {}
    /\ phase = "tracking" => \A b \in held \ present : track[b] \notin Analyzed \cup {"cut"}
    /\ ~cleanup => {b \in pinned : Useless(b)} \subseteq held \cup releasing \cup leaked

\* While a transaction is tracked the blocks that wait or are analysed are held, so
\* that each is there when it is needed, and let go of after that.
HoldsAreRight == AnalyzedIsPinned /\ StateIsComputable /\ NoHoldLeaks

\* The user is told what the best chain says, and in the end what the finalized
\* chain says; what is needed for that stays pinned, and but for lost holds nothing
\* else does. Another transaction may spoil what is said of the best chain, by its
\* end; never what is said of the finalized one.
FateIsRight == TypeOK /\ HoldsAreRight /\ ReportIsRight /\ FinalizedIsFinal

\* The finalized chain has the transaction, and the user has not heard of it.
FinalUnheard ==
    phase = "tracking" /\ ~robbed /\ Line[finalized] \cap included \cap Fresh # {}

\* The validation of a block that becomes pruned is cancelled.
PrunedIsCancelled == validating \cap pruned = {}
===============================================================================
