-------------------------- MODULE MCCordzSampleToken --------------------------
EXTENDS CordzSampleToken
CONSTANTS i1, i2, i3, s1, s2
MCInfos == {i1, i2, i3}
MCSamplers == {s1, s2}
=============================================================================
