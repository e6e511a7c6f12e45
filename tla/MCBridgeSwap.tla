---------------------------- MODULE MCBridgeSwap ----------------------------
EXTENDS BridgeSwap, TLC

ReaderSymmetry == Permutations(Readers)
=============================================================================
