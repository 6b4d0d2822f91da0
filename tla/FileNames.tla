----------------------------- MODULE FileNames -----------------------------
(***************************************************************************)
(* File names and storage keys: sanitizeFilename (handlers/file.go),       *)
(* storagekey.Build and Split, validKey (handlers/multipart.go).           *)
(*                                                                         *)
(* A name is a sequence of characters, one for each class the code tells   *)
(* apart: "a" any other character of one byte, "w" a character of several  *)
(* bytes, "c" a control character, and " ", ".", "/", "\\", "_".  The      *)
(* UUID of a key is a single "u": it has no "_" and a fixed length.        *)
(***************************************************************************)
EXTENDS SequencesExt

CONSTANTS
    MaxFilenameLength,  \* in characters
    MaxExtLength,       \* longest extension that survives truncation
    MaxKeyLength,       \* in bytes
    WideBytes           \* bytes of "w"

ASSUME NamesAssumption ==
    /\ MaxFilenameLength \in Nat /\ MaxExtLength \in 0 .. MaxFilenameLength
    /\ MaxKeyLength \in Nat
    /\ WideBytes \in 2 .. 4

-----------------------------------------------------------------------------

Char == {"a", "w", "c", " ", ".", "/", "\\", "_", "u"}

LastIndex(s, c) == SelectLastInSeq(s, LAMBDA x : x = c)
After(s, i) == SubSeq(s, i + 1, Len(s))

(* s without the characters of class C at either end.                      *)
TrimRight(s, C) == SubSeq(s, 1, SelectLastInSeq(s, LAMBDA x : x \notin C))
TrimLeft(s, C) ==
    LET i == SelectInSeq(s, LAMBDA x : x \notin C)
    IN  IF i = 0 THEN <<>> ELSE After(s, i - 1)

(* path.Base and path.Ext of the Go library.                               *)
Base(s) ==
    LET t == TrimRight(s, {"/"})
    IN  IF s = <<>> THEN <<".">>
        ELSE IF t = <<>> THEN <<"/">>
        ELSE After(t, LastIndex(t, "/"))

Ext(s) ==
    LET i == LastIndex(s, ".")
    IN  IF i > LastIndex(s, "/") THEN After(s, i - 1) ELSE <<>>

Truncate(s) ==
    LET ext == IF Len(Ext(s)) > MaxExtLength THEN <<>> ELSE Ext(s)
    IN  IF Len(s) > MaxFilenameLength
        THEN SubSeq(s, 1, MaxFilenameLength - Len(ext)) \o ext
        ELSE s

(* "file", a name of plain characters.                                     *)
Fallback == <<"a">>

(* strings.Map without the control characters.                             *)
Keep(t, x) == IF x = "c" THEN t ELSE Append(t, x)
Visible(s) == FoldLeft(Keep, <<>>, s)

SanitizeFilename(name) ==
    LET visible == Visible(Base(ReplaceAll(name, "\\", "/")))
        cleaned == Truncate(TrimLeft(TrimRight(visible, {" "}), {" "}))
    IN  IF cleaned \in {<<>>, <<".">>, <<".", ".">>} THEN Fallback ELSE cleaned

Separator == "_"

Build(id, name) == Append(id, Separator) \o name

(* Mutant: the key is cut at its last separator.                           *)
SplitLast(key) ==
    LET i == LastIndex(key, Separator)
    IN  IF i = 0 THEN [id |-> <<>>, name |-> key]
        ELSE [id |-> SubSeq(key, 1, i - 1), name |-> After(key, i)]

Split(key) ==
    LET i == SelectInSeq(key, LAMBDA x : x = Separator)
    IN  IF i = 0 THEN [id |-> <<>>, name |-> key]
        ELSE [id |-> SubSeq(key, 1, i - 1), name |-> After(key, i)]

ByteLen(s) == FoldLeft(LAMBDA n, x : n + IF x = "w" THEN WideBytes ELSE 1, 0, s)

ValidKey(key) ==
    /\ key # <<>>
    /\ ByteLen(key) <= MaxKeyLength
    /\ \A i \in DOMAIN key : key[i] \notin {"c", "/", "\\"}
=============================================================================
