\* Two owners and two requests that each end the other one's role, none of which
\* has an end.
SPECIFICATION OwnersSpec
CONSTANTS
  Member = {a, b}  a = a  Founder = a  AccessRequest = {q, r}  Grants = {"held"}
INVARIANT TenantRetainsOwner
