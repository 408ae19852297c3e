-------------------------- MODULE MCNoiseKeypairs --------------------------
(* The keypairs of a peer with one more keypair than slots.                *)
EXTENDS NoiseKeypairs
=============================================================================
