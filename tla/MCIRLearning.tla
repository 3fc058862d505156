---------------------------- MODULE MCIRLearning ----------------------------
EXTENDS IRLearning, TLC

MCSymmetry == Permutations(Clients) \cup Permutations(Appliances)
=============================================================================
