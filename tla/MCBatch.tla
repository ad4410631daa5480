------------------------------- MODULE MCBatch -------------------------------
(* Batch on two metric names sharing a label value, with label lists that  *)
(* give the two names different label sets.                                *)
EXTENDS Batch

CONSTANTS name, m1, m2, job, inst, x, v1, sample

\* {__name__="m1", job="x"}, {__name__="m2", inst="x"}, {__name__="m1"}
MCLbls ==
    { << <<name, m1>>, <<job, x>> >>,
      << <<name, m2>>, <<inst, x>> >>,
      << <<name, m1>> >> }

=============================================================================
