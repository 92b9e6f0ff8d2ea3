---------------------------- MODULE MCThreadPool ----------------------------
(***************************************************************************)
(* ThreadPoolExecutor with small sets of workers and tasks.                *)
(***************************************************************************)
EXTENDS ThreadPoolExecutor
=============================================================================
