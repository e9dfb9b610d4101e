----------------------------- MODULE FlashData -----------------------------
(***************************************************************************)
(* The contents of a logical eraseblock, as sequences of NAND pages.  A    *)
(* page is abstracted to a value of Page; Torn is a page whose write or    *)
(* erasure was interrupted, so that reading it is an uncorrectable ECC     *)
(* error (-EBADMSG).  Pages behind the end of the sequence read as 0xFF.   *)
(***************************************************************************)
EXTENDS Naturals, Sequences

CONSTANTS Page,       \* contents of a correctly written page
          Torn,       \* a page the ECC cannot correct
          MaxPages    \* pages in a logical eraseblock

ASSUME TornIsNoPage == Torn \notin Page
ASSUME PagesAssumption == MaxPages \in Nat \ {0}

\* Everything that can be read from an eraseblock, and what users write.
Content == Seq(Page \cup {Torn})
Written == UNION {[1..n -> Page] : n \in 0..MaxPages}

\* What is on the flash when writing c stopped part of the way.
Partial(c) == LET pre == {SubSeq(c, 1, n) : n \in 0..Len(c)}
              IN pre \cup {Append(s, Torn) : s \in {t \in pre : Len(t) < Len(c)}}

\* What is left of c when an erasure stopped before it reached the headers.
Scrambled(c) == {c, [i \in 1..Len(c) |-> Torn]}

\* Reading the first n pages of c meets an ECC error.
EccError(c, n) == \E i \in 1..n : i <= Len(c) /\ c[i] = Torn
=============================================================================
