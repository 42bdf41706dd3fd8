--------------------------- MODULE MCPreparation ---------------------------
(* Preparation for TLC: three loaders, so that one that has not answered may come
   before or after the one that decides, and a third be still running. *)
EXTENDS Preparation

ThreeLoaders == <<"/lib/ld-linux.so.2", "/lib64/ld-linux.so.2", "/usr/lib64/libc.so.6">>
=============================================================================
