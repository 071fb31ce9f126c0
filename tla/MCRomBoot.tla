----------------------------- MODULE MCRomBoot -----------------------------
EXTENDS RomBoot

\* One bit a page.  The last page of the image is blank.
MCImage == [p \in RomPage |-> IF p + 1 \in RomPage THEN {0} ELSE {}]

\* Blank, the image, another image that shares all pages but the last with
\* it, and one that lacks a page (an older image, or what a crash has left).
MCInitialRoms == {Blank, MCImage, [MCImage EXCEPT ![ROM_PAGES - 1] = {0}], [MCImage EXCEPT ![1] = {}]}

\* One chip, two, and three: then the ROM region is no whole number of groups.
MCBundles == {<<1, 6>>, <<2, 4>>, <<3, 2>>}
============================================================================
