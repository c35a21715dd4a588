------------------------------- MODULE MCBurst -------------------------------
(***************************************************************************)
(* BurstScaler for TLC: two recordings, a worker with one slot on each     *)
(* pod, so that one long recording makes the other wait, one submission at *)
(* a time and one fault: a failing call or a pod taken away.  A lease and  *)
(* its entry in active_job_ids are two steps on the burst pod, whose list  *)
(* decides about the pod; on the primary pod the two are module JobQueue's *)
(* subject.                                                                *)
(***************************************************************************)
EXTENDS BurstScaler
=============================================================================
