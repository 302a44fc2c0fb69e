--------------------------- MODULE MCSerialLink ----------------------------
(* Small instances of SerialLink: a body that needs escaping, after a type *)
(* and a magic that do not.  The checksum is any function of the bytes; one *)
(* byte of it is a flag for some of them.                                  *)
EXTENDS SerialLink

MCBodies == {<<Flag>>}

MCCrc32(bytes) == <<Len(bytes), 122 + Len(bytes), 0, bytes[Len(bytes)]>>
=============================================================================
