----------------------- MODULE MCPublicationAuthority -----------------------
(* Small instances of the publication authority.                           *)
EXTENDS PublicationAuthority, TLC

CONSTANTS A, B, w1, w2, a0, a1, b0, x0, k0, k1, k2, c1

\* A retried Task of A that returns a value holding B, a put of B holding A, and
\* a second put under the same key that takes A for another owner's.
EpochKey      == a0 :> k0 @@ a1 :> k1 @@ b0 :> k2 @@ x0 :> k2
EpochObject   == a0 :> A  @@ a1 :> A  @@ b0 :> B @@ x0 :> B
EpochOwner    == a0 :> w1 @@ a1 :> w1 @@ b0 :> w1 @@ x0 :> w1
EpochRoute    == a0 :> 1  @@ a1 :> 1  @@ b0 :> 1 @@ x0 :> 1
EpochAttempt  == a0 :> 0  @@ a1 :> 1  @@ b0 :> 0 @@ x0 :> 0
EpochKind     == a0 :> "task" @@ a1 :> "task" @@ b0 :> "put" @@ x0 :> "put"
EpochChildren == a0 :> {<<B, w1>>} @@ a1 :> {} @@ b0 :> {<<A, w1>>} @@ x0 :> {<<A, w2>>}
=============================================================================
