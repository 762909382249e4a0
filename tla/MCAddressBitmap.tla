--------------------------- MODULE MCAddressBitmap ---------------------------
(***************************************************************************)
(* Segments of two bits of four bytes and a cache of two entries: objects  *)
(* at unaligned distances, several in one segment, three segments of which *)
(* two compete for one cache entry.                                        *)
(***************************************************************************)
EXTENDS AddressBitmap

MCAddresses == {0, 5, 11, 17, 22, 34}
==============================================================================
