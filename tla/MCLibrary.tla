----------------------------- MODULE MCLibrary ------------------------------
(***************************************************************************)
(* Three parts of the library that share nothing here, in one instance for *)
(* TLC: a behaviour uses a curl_client, or a CMemoryStream, or the         *)
(* functions on texts, and leaves the others as they were made.            *)
(*                                                                         *)
(* Requests: one that leaves something behind, one that may clean it up    *)
(* and one that may meet it; two chunks, one before and one after a        *)
(* cancel.                                                                 *)
(* Streams: three pages of two cells, so that a string of two characters   *)
(* and its length cross a page, and the third one runs out of memory.      *)
(* Texts: those that make the functions differ, with overlapping tokens,   *)
(* paths with points and streams, upper case and spaces, runs of new       *)
(* lines; numbers around every border of words of 4 bits, with a half line *)
(* of 2 bytes and devices in a buffer of 5; addresses inside and next to   *)
(* every reserved block.                                                   *)
(***************************************************************************)
EXTENDS CurlClient, MemoryStream, TextUtils

VARIABLE part  \* the part that is used

MCBytes == 0 .. 2
MCStrings == {<<>>, <<1>>, <<2, 1>>}

MCTexts == SeqOf({"a", "\\", ".", ":"}, 4) \cup SeqOf({"a", "A", " "}, 4)
             \cup SeqOf({"a", "CR", "LF", "NUL"}, 4) \cup SeqOf({"a", "\\"}, 6)
MCTokens == {<<"a">>, <<".">>, <<" ">>, <<"A">>, <<"a", "a">>, <<"a", ".">>, <<"\\">>}
MCAddresses ==
  {<<a, b, c, d>> : a \in {0, 1, 9, 10, 100, 127, 169, 172, 192, 223, 224, 240, 255},
                    b \in {0, 15, 16, 31, 32, 64, 127, 128, 168, 254, 255},
                    c \in {0, 1, 3, 15, 16, 255}, d \in {0, 8, 16, 255}}
MCNumbers == -20 .. 260
MCStartTimes == {0, 3, 15, 16, 17, 100, 127, 250}

\* A part that is not used begins, and stays, in one state.
LibraryInit ==
  /\ part \in {"curl", "stream", "texts"}
  /\ part = "stream" \/ (part # "stream" /\ stream = Empty)
  /\ StreamInit
  /\ part = "texts" \/ (part # "texts" /\ job = "split" /\ source = <<>> /\ token = <<"a">>)
  /\ TextInit
  /\ Init

LibraryNext ==
  \/ part = "curl" /\ Next /\ UNCHANGED <<part, streamVars, textVars>>
  \/ part = "stream" /\ StreamNext /\ UNCHANGED <<part, vars, textVars>>
  \/ part = "texts" /\ TextNext /\ UNCHANGED <<part, vars, streamVars>>

LibrarySpec == LibraryInit /\ [][LibraryNext]_<<part, vars, streamVars, textVars>>
=============================================================================
