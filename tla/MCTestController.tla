-------------------------- MODULE MCTestController --------------------------
(* TestController with error codes of each kind the tests return: an errno, *)
(* a code of the program, an algorithm error that code_map[] holds and one   *)
(* that it does not (March C).                                               *)
EXTENDS TestController

MCRDResults == {ERR_SUCCESS, ERR_BIND_CPU, Errno(12)}
MCRWResults == {ERR_SUCCESS, ERR_CREATE_THREAD, ERR_READ_RAND_PATTERN, LibErr(16), LibErr(26)}
=============================================================================
