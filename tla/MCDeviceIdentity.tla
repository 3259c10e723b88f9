-------------------------- MODULE MCDeviceIdentity --------------------------
\* The instance of DeviceIdentity that TLC checks: of two devices,
\* the first may change its client id, and the second may get its address.
EXTENDS DeviceIdentity

CONSTANTS d1, d2, a1, a2, n1, n2

MCClientIds == {<<d1, n1>>, <<d1, n2>>, <<d2, n1>>}
MCLeases == {<<d1, a1>>, <<d2, a1>>, <<d2, a2>>}
=============================================================================
