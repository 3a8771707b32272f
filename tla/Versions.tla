------------------------------ MODULE Versions ------------------------------
(***************************************************************************)
(* What the programs make of a version text: the gateway's                 *)
(* compare_versions and copy_version_str (version_checker.cpp), and        *)
(* validate_version_format and compare_versions of the manager             *)
(* (firmware_manager.py), which read the same text in different ways.      *)
(* Versions that overflow an int are left out.                             *)
(***************************************************************************)
EXTENDS Integers, Sequences, SequencesExt

Chars(text) == [i \in 1 .. Len(text) |-> SubSeq(text, i, i)]

Digits == <<"0", "1", "2", "3", "4", "5", "6", "7", "8", "9">>
IsDigit(c) == Contains(Digits, c)
Number(cs) == FoldLeft(LAMBDA n, c : 10 * n + SelectInSeq(Digits, LAMBDA d : d = c) - 1, 0, cs)
NumbersOf(pieces) == [i \in DOMAIN pieces |-> Number(pieces[i])]

(* The pieces of cs between the marks, empty ones included.                *)
Split(cs, mark) ==
    FoldLeft(LAMBDA pieces, c : IF c = mark THEN Append(pieces, <<>>)
                                ELSE [pieces EXCEPT ![Len(pieces)] = Append(@, c)],
             <<<<>>>>, cs)

-----------------------------------------------------------------------------
(* The gateway.                                                            *)

(* Everything but digits and points is skipped, a suffix's digits are not. *)
GatewayNumbers(text) ==
    LET kept == SelectSeq(Chars(text), LAMBDA c : IsDigit(c) \/ c = ".")
    IN  NumbersOf(SelectSeq(Split(kept, "."), LAMBDA piece : piece # <<>>))

(* The header has room for 11 characters.                                  *)
CopyVersionStr(text) == SubSeq(text, 1, IF Len(text) > 11 THEN 11 ELSE Len(text))

-----------------------------------------------------------------------------
(* The manager.                                                            *)

ValidateVersionFormat(text) ==
    LET cs == Chars(text)
        halves == Split(IF cs # <<>> /\ cs[1] = "v" THEN Tail(cs) ELSE cs, "-")
        numbers == Split(halves[1], ".")
    IN  /\ Len(numbers) \in {2, 3}
        /\ \A i \in DOMAIN numbers : numbers[i] # <<>> /\ \A c \in ToSet(numbers[i]) : IsDigit(c)
        /\ Len(halves) <= 2
        /\ Len(halves) = 2 => halves[2] # <<>> /\ ~Contains(halves[2], ".")

(* The numbers of a valid version, without its "v" and its suffix.         *)
ManagerNumbers(text) ==
    NumbersOf(Split(SelectSeq(Split(Chars(text), "-")[1], LAMBDA c : c # "v"), "."))

(* Mutant: the shorter version is not padded, and zip() stops at its end.  *)
ManagerCompareUnpadded(v, w) ==
    LET vs == ManagerNumbers(v)
        ws == ManagerNumbers(w)
        differ == {i \in DOMAIN vs \cap DOMAIN ws : vs[i] # ws[i]}
        i == CHOOSE i \in differ : \A j \in differ : i <= j
    IN  IF differ = {} THEN 0 ELSE IF vs[i] < ws[i] THEN -1 ELSE 1

(* compare_versions: the first number that differs decides; a missing one  *)
(* counts as 0.                                                            *)
ManagerCompare(v, w) ==
    LET At(numbers, i) == IF i \in DOMAIN numbers THEN numbers[i] ELSE 0
        vs == ManagerNumbers(v)
        ws == ManagerNumbers(w)
        differ == {i \in DOMAIN vs \union DOMAIN ws : At(vs, i) # At(ws, i)}
        i == CHOOSE i \in differ : \A j \in differ : i <= j
    IN  IF differ = {} THEN 0 ELSE IF At(vs, i) < At(ws, i) THEN -1 ELSE 1
=============================================================================
