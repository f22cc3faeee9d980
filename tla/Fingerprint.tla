----------------------------- MODULE Fingerprint -----------------------------
(***************************************************************************)
(* BuildDetector: the fingerprint of an executable, taken from its file by *)
(* the launcher and from the loaded module by the client, and the one      *)
(* build that is known.                                                    *)
(*                                                                         *)
(* An image is a record: the sizes and offsets its headers give, its       *)
(* sections, its bytes in the file (fileText) and in memory (memoryText).  *)
(* The FNV hash of a range is the range: which bytes, and how many; two    *)
(* ranges that differ are taken to have different hashes.  The version     *)
(* string and the machine are filled in and compared by nobody.            *)
(***************************************************************************)
EXTENDS Integers, Sequences

CONSTANTS
    Expected,       \* the fingerprint of the known build
    HeaderSize      \* sizeof(IMAGE_NT_HEADERS64)

NoFingerprint == [inspected |-> FALSE]

Smaller(a, b) == IF a <= b THEN a ELSE b

\* The loop over the sections: the first one named .text.
TextSections(image) ==
    {i \in DOMAIN image.sections :
        /\ image.sections[i].name = ".text"
        /\ \A j \in 1..(i - 1) : image.sections[j].name # ".text"}

Text(image) == image.sections[CHOOSE i \in TextSections(image) : TRUE]

\* Both inspectors hash no more than the file holds of the section.
Hashed(section) == Smaller(section.virtualSize, section.rawSize)

Fingerprint(image, bytes, hashed) ==
    [inspected |-> TRUE, stamp |-> image.stamp, imageSize |-> image.imageSize,
     rva |-> Text(image).rva, textSize |-> Text(image).virtualSize,
     hash |-> <<bytes, hashed>>]

\* inspect_file, inspect_pe_buffer.
InspectFile(image) ==
    IF /\ image.dos
       /\ image.ntAt > 0
       /\ image.ntAt + HeaderSize <= image.fileSize
       /\ image.amd64
       /\ TextSections(image) # {}
       /\ Text(image).raw + Hashed(Text(image)) <= image.fileSize
    THEN Fingerprint(image, image.fileText, Hashed(Text(image)))
    ELSE NoFingerprint

\* inspect_loaded_module: sizes are not checked, the loader has done so.
InspectLoadedRaw(image) ==                    \* mutant: the raw size is hashed
    IF image.dos /\ image.ntAt > 0 /\ image.amd64 /\ TextSections(image) # {}
    THEN Fingerprint(image, image.memoryText, Text(image).rawSize)
    ELSE NoFingerprint

InspectLoaded(image) ==
    IF image.dos /\ image.ntAt > 0 /\ image.amd64 /\ TextSections(image) # {}
    THEN Fingerprint(image, image.memoryText, Hashed(Text(image)))
    ELSE NoFingerprint

\* match, for a descriptor that is complete; Unknown otherwise.
Known(fingerprint) == fingerprint.inspected /\ fingerprint = Expected
=============================================================================
