\* A delivery route definition whose trigger precedes its password.
SPECIFICATION Spec
CONSTANTS
  Resources = {res1}
  Keys = {key1}
  Fields = {"status"}
  Values = {unset}
  Unset = unset
  Versions = {ver1}
  Families <- DeliveryRoute
  Omissions = {FALSE}
  Absent = Absent
  NoKey = NoKey
  key1 = key1  key2 = key2  a = a  b = b  unset = unset  ver1 = ver1  ver2 = ver2
  res1 = res1  res2 = res2
INVARIANT NoTriggerWithoutSecret
