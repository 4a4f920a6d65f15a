------------------------ MODULE MC_ReaderPrimitives ------------------------
(* Lines of up to four bytes over a, b, CR and LF, in every split into    *)
(* TCP reads.                                                              *)
EXTENDS ReaderPrimitives

MCChars == {"a", "b"}
=============================================================================
