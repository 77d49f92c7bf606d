---------------------------- MODULE MCRaftApply ----------------------------
EXTENDS RaftApply, MCRaft

ApplyView == <<View, serviceVars>>

ApplyBounds == FreshCommands /\ Bounds'

MCApplyNext == ApplyNext /\ ApplyBounds
MCApplySpec == ApplyInit /\ [][MCApplyNext]_allVars

=============================================================================
