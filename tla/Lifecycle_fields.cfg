\* One resource of every family without a secret, one attribute, two values.
SPECIFICATION Spec
CONSTANTS
  Resources = {res1}
  Keys = {key1, key2}
  Fields = {"status"}
  Values = {a, unset}
  Unset = unset
  Versions = {}
  Families <- PlainFamilies
  Omissions = {FALSE, TRUE}
  Absent = Absent
  NoKey = NoKey
  key1 = key1  key2 = key2  a = a  b = b  unset = unset  ver1 = ver1  ver2 = ver2
  res1 = res1  res2 = res2
SYMMETRY NameSymmetry
INVARIANTS TypeOK NoSilentOrphan RefreshedApplyConverges StateTrueWhenCalm
