---------------------------- MODULE MCDeployment ----------------------------
(* Instances of Deployment for TLC.                                        *)
EXTENDS Deployment, TLC

CONSTANTS a, b, x, y

Sql(v, sum) == [version |-> v, checksum |-> sum]

\* A release, its successor, two successors with an edited file, and one whose
\* second file has another name.
MCReleases ==
  {<<Sql(1, a)>>,
   <<Sql(1, a), Sql(2, b)>>,
   <<Sql(1, a), Sql(2, x), Sql(4, y)>>,
   <<Sql(1, x), Sql(2, b)>>,
   <<Sql(1, a), Sql(3, y)>>}

\* Nothing tells one container from another.
Symmetry == Permutations(Containers)
=============================================================================
