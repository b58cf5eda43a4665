----------------------------- MODULE DeltaText -----------------------------
(***************************************************************************)
(* sx diff followed by sx patch: the delta is written to a file as text by *)
(* the formatter of sx-text, read back by its parser, and applied; or it   *)
(* is applied by the program that has computed it, without a file.         *)
(*                                                                         *)
(* What the text does to an operation is modelled for the operations diff  *)
(* makes.  Of an operation the formatter prints kind, path and value, the  *)
(* value after "=".                                                        *)
(***************************************************************************)
EXTENDS DeltaSync, TextForm

\* Mutant: every segment is read as a key.
AllKeys(p) == [i \in DOMAIN p |-> Key(p[i][2])]

\* Display writes a path without saying which segments are keys; parse takes
\* every segment that reads as a number for an index.  (Keys are spelled with
\* what the lexer takes for a part of a path: letters, digits, "_", "-" and ".".)
TextPath(p) == [i \in DOMAIN p |-> IF p[i][2] \in Numeric THEN Index(p[i][2]) ELSE p[i]]

\* The parser wants the word "by" before the amount of a counter operation.
Readable(op) == /\ op.kind \notin {"Increment", "Decrement"}
                /\ op.value # Missing => ValueReadable(op.value)

Reread(op) ==
  [op EXCEPT !.path = TextPath(@),
             !.value = IF @ = Missing THEN Missing
                       ELSE [p \in DOMAIN @ |-> TextNode(@[p])]]

\* sx patch loads the file that sx diff has written.
LoadDelta ==
  /\ ~ reread /\ result = "applying" /\ applied = 0
  /\ reread' = TRUE
  /\ \/ /\ \A i \in DOMAIN todo : Readable(todo[i])
        /\ todo' = [i \in DOMAIN todo |-> Reread(todo[i])]
        /\ UNCHANGED <<vars, target>>
     \/ /\ \E i \in DOMAIN todo : ~ Readable(todo[i])
        /\ Fails("ParseError")
        /\ UNCHANGED <<last, target, todo>>

PatchNext == LoadDelta \/ SyncNext

PatchSpec == SyncInit /\ [][PatchNext]_syncVars
-----------------------------------------------------------------------------
\* The text keeps all there is in the document.
SurvivesText(d) == ValueReadable(d) /\ \A p \in DOMAIN d : TextNode(d[p]) = d[p]

NoCounters(d) == \A p \in DOMAIN d : Variant(d[p]) # "I64"

\* For documents without counters that the text can express, sx patch makes
\* the target from the file sx diff wrote, whatever else has changed.
PatchedThroughText ==
  /\ reread /\ SurvivesText(target) /\ NoCounters(target) /\ SurvivesText(doc)
  => /\ result \in {"applying", "ok"}
     /\ result = "ok" => doc = target

\* The README says "sx diff <base> <target> --out <delta>" and
\* "sx patch <base> <delta> --out <target>": patching the base with the delta
\* gives the target.
PatchGivesTarget == reread /\ result # "applying" => result = "ok" /\ doc = target
=============================================================================
