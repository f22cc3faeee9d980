--------------------------- MODULE MCGameProcess ---------------------------
(* Instance of GameProcess for TLC: executables that pass both gates, one,  *)
(* or none of them.                                                         *)
EXTENDS GameProcessProperties

TextSection ==
    [name |-> ".text", rva |-> 1, virtualSize |-> 3, raw |-> 2, rawSize |-> 4]

KnownImage ==
    [dos |-> TRUE, ntAt |-> 1, amd64 |-> TRUE, stamp |-> 1, imageSize |-> 8,
     fileSize |-> 6, fileText |-> "text", memoryText |-> "text",
     sections |-> <<[TextSection EXCEPT !.name = ".idata"], TextSection>>]

MCExpected ==
    [inspected |-> TRUE, stamp |-> 1, imageSize |-> 8, rva |-> 1, textSize |-> 3,
     hash |-> <<"text", 3>>]

\* The known build; changed in memory; cut short; changed on disk; no .text.
MCImage ==
    {KnownImage,
     [KnownImage EXCEPT !.memoryText = "patched"],
     [KnownImage EXCEPT !.fileSize = 4],
     [KnownImage EXCEPT !.fileText = "patched", !.memoryText = "patched"],
     [KnownImage EXCEPT !.sections = <<>>]}
=============================================================================
